---- MODULE Spec2Model ----
(***************************************************************************)
(* A model of the Monkey interpreter (hungtcs/monkey-lang): the runtime    *)
(* values of monkey/value.go, the environment chain of monkey/env.go and   *)
(* the tree-walking evaluator of monkey/eval.go, with the lexer and the    *)
(* Pratt parser of syntax/lexer.go and syntax/parser.go.                   *)
(*                                                                         *)
(* Go's (Value, error) results are records [val, err, panic, st]: err = "" *)
(* is a nil error, panic # "" is a Go runtime panic unwinding out of Eval  *)
(* (Eval has no recover), st is the interpreter state the call leaves      *)
(* behind (the heap of environment frames and the statement log).          *)
(***************************************************************************)
EXTENDS Integers, Sequences, FiniteSets, TLC

(***************************************************************************)
(* Bounds of the model.                                                    *)
(***************************************************************************)
MaxLines == 3      \* operations performed on one root environment
MaxFrames == 7     \* environment frames allocated before operations stop

(***************************************************************************)
(* syntax: AST nodes (the structs of the syntax package).  A field keeps   *)
(* the name it has in the source unless two node types use one name for    *)
(* values of different Go types.                                           *)
(***************************************************************************)
Program(stmts) == [node |-> "Program", Stmts |-> stmts]
Identifier(name) == [node |-> "Identifier", Ident |-> name]
LetStmt(pos, name, value) ==
    [node |-> "LetStmt", Pos |-> pos, Name |-> Identifier(name), Value |-> value]
ReturnStmt(pos, value) == [node |-> "ReturnStmt", Pos |-> pos, Value |-> value]
ExprStmt(pos, expr) == [node |-> "ExprStmt", Pos |-> pos, Expr |-> expr]
IntegerLiteral(n) == [node |-> "IntegerLiteral", IntValue |-> n]
StringLiteral(bytes) == [node |-> "StringLiteral", StrValue |-> bytes]
Boolean(b) == [node |-> "Boolean", BoolValue |-> b]
PrefixExpr(op, right) == [node |-> "PrefixExpr", Op |-> op, Right |-> right]
InfixExpr(op, left, right) ==
    [node |-> "InfixExpr", Op |-> op, Left |-> left, Right |-> right]
BlockStmt(stmts) == [node |-> "BlockStmt", Stmts |-> stmts]
NoBlock == [node |-> "nil"]     \* a nil *BlockStmt (IfExpr without else)
IfExpr(cond, cons, alt) ==
    [node |-> "IfExpr", Cond |-> cond, Consequence |-> cons, Alternative |-> alt]
FunctionLiteral(params, body) ==
    [node |-> "FunctionLiteral", Params |-> params, Body |-> body]
CallExpr(function, args) ==
    [node |-> "CallExpr", Function |-> function, Args |-> args]
ArrayLiteral(items) == [node |-> "ArrayLiteral", Items |-> items]
\* Pairs is a Go map keyed by the key expression's pointer: one entry per
\* source pair (listed here in insertion order), iterated in any order.
MapLiteral(pairs) == [node |-> "MapLiteral", Pairs |-> pairs]
IndexExpr(left, index) == [node |-> "IndexExpr", Left |-> left, Index |-> index]

(***************************************************************************)
(* monkey: runtime values.                                                 *)
(***************************************************************************)
Nil == [kind |-> "nil"]                          \* a nil Value interface
Null == [kind |-> "null"]
IntVal(n) == [kind |-> "int", i |-> n]   \* Int(n); Int names the integers here
Bool(b) == [kind |-> "bool", b |-> b]
True == Bool(TRUE)
False == Bool(FALSE)
String(bytes) == [kind |-> "string", bytes |-> bytes]
Array(items) == [kind |-> "array", items |-> items]
Map(entries) == [kind |-> "map", entries |-> entries]
MapEntry(key, val) == [Key |-> key, Val |-> val]
returnValue(v) == [kind |-> "returnValue", inner |-> v]
Function(params, body, env) ==
    [kind |-> "function", Params |-> params, Body |-> body, Env |-> env]
BuiltinFunction(name) == [kind |-> "builtin_function", name |-> name]

\* Results of the Go functions: (Value, error), or a panic.
Ok(v) == [val |-> v, err |-> "", panic |-> ""]
Error(v, msg) == [val |-> v, err |-> msg, panic |-> ""]
Panic(msg) == [val |-> Nil, err |-> "", panic |-> msg]
NilDeref == "nil pointer dereference"
WithSt(r, st) == [val |-> r.val, err |-> r.err, panic |-> r.panic, st |-> st]
Failed(r) == r.err # "" \/ r.panic # ""
\* `if err != nil { return nil, err }`; a panic keeps unwinding.
Propagate(r) == [r EXCEPT !.val = Nil]

RECURSIVE Type(_)
\* Type() of a value; "panic" when the method dereferences a nil interface.
Type(v) ==
    CASE v.kind = "nil" -> "panic"
      [] v.kind = "returnValue" -> Type(v.inner)
      [] OTHER -> v.kind

\* truthiness with only null and false falsy: 0 and "" count as true
TruthOfNonZero(v) == v.kind # "null" /\ (v.kind = "bool" => v.b)

RECURSIVE Truth(_)
\* Truth() of a value that is not nil (see TruthPanics).
Truth(v) ==
    CASE v.kind = "null" -> FALSE
      [] v.kind = "int" -> v.i # 0
      [] v.kind = "bool" -> v.b
      [] v.kind = "string" -> Len(v.bytes) > 0
      [] v.kind = "returnValue" -> Truth(v.inner)
      [] OTHER -> TRUE

RECURSIVE TruthPanics(_)
TruthPanics(v) ==
    \/ v.kind = "nil"
    \/ v.kind = "returnValue" /\ TruthPanics(v.inner)

b2i(b) == IF b THEN 1 ELSE 0

threeway(op, cmp) ==
    CASE op = "==" -> cmp = 0
      [] op = "!=" -> cmp # 0
      [] op = "<=" -> cmp <= 0
      [] op = "<" -> cmp < 0
      [] op = ">=" -> cmp >= 0
      [] op = ">" -> cmp > 0

isSameType(x, y) == Type(x) = Type(y)

(***************************************************************************)
(* Hashing (Value.Hash).  A uint32 is the pair <<high 16 bits, low 16      *)
(* bits>>, so that no intermediate product leaves the checker's integers.  *)
(***************************************************************************)
W16 == 65536

U32(n) == <<(n \div W16) % W16, n % W16>>      \* uint32(n) of a Go integer n

\* (a * b) mod 2^16 for 16-bit a, b
MulLo16(a, b) == ((a % 256) * b + 256 * (((a \div 256) * b) % 256)) % W16

\* floor(a * b / 2^16) mod 2^16 for 16-bit a, b
MulHi16(a, b) ==
    LET x == (a % 256) * b
        y == (a \div 256) * b
    IN  ((x + 256 * (y % 256)) \div W16 + y \div 256) % W16

\* uint32 multiplication, wrapping
Mul32(a, b) ==
    << (MulHi16(a[2], b[2]) + MulLo16(a[1], b[2]) + MulLo16(a[2], b[1])) % W16,
       MulLo16(a[2], b[2]) >>

RECURSIVE Xor(_, _)
\* bitwise exclusive or of two naturals
Xor(a, b) ==
    IF a = 0 THEN b
    ELSE IF b = 0 THEN a
    ELSE 2 * Xor(a \div 2, b \div 2) + ((a + b) % 2)

FnvOffset == <<33052, 40389>>                 \* 2166136261 = 0x811C9DC5
FnvPrime == U32(16777619)

RECURSIVE softHashFrom(_, _, _)
softHashFrom(bytes, i, h) ==
    IF i > Len(bytes) THEN h
    ELSE softHashFrom(bytes, i + 1, Mul32(<<h[1], Xor(h[2], bytes[i])>>, FnvPrime))

\* softHashString: 32-bit FNV-1a.  (Strings of 12 bytes and more hash with a
\* per-process seed; the model keeps its strings shorter.)
softHashString(bytes) == softHashFrom(bytes, 1, FnvOffset)

\* Int.Hash: 12582917 * uint32(lo + 3)
IntHash(i) == Mul32(U32(12582917), U32(i + 3))

\* Value.Hash(): [h, err, panic]
Hash(v) ==
    CASE v.kind = "nil" -> [h |-> <<0, 0>>, err |-> "", panic |-> NilDeref]
      [] v.kind = "null" -> [h |-> <<0, 0>>, err |-> "", panic |-> ""]
      [] v.kind = "int" -> [h |-> IntHash(v.i), err |-> "", panic |-> ""]
      [] v.kind = "bool" -> [h |-> U32(b2i(v.b)), err |-> "", panic |-> ""]
      [] v.kind = "string" ->
            [h |-> softHashString(v.bytes), err |-> "", panic |-> ""]
      [] v.kind = "array" ->
            [h |-> <<0, 0>>, err |-> "unhashable type: array", panic |-> ""]
      [] v.kind = "map" ->
            [h |-> <<0, 0>>, err |-> "unhashable type: map", panic |-> ""]
      [] OTHER -> [h |-> <<0, 0>>, err |-> "", panic |-> "unimplemented"]

(***************************************************************************)
(* Operators of the values.                                                *)
(***************************************************************************)
\* Int.Binary.  Go's nil result (nil, nil) is Ok(Nil).  Integer division by
\* zero is a Go runtime panic.  Quotients truncate toward zero.
IntQuo(x, y) ==
    IF (x >= 0) = (y > 0) THEN (IF x >= 0 THEN x ELSE -x) \div (IF y > 0 THEN y ELSE -y)
    ELSE -((IF x >= 0 THEN x ELSE -x) \div (IF y > 0 THEN y ELSE -y))

IntBinary(i, op, y) ==
    IF y.kind # "int" THEN Ok(Nil)
    ELSE CASE op = "+" -> Ok(IntVal(i.i + y.i))
           [] op = "-" -> Ok(IntVal(i.i - y.i))
           [] op = "*" -> Ok(IntVal(i.i * y.i))
           [] op = "/" -> IF y.i = 0 THEN Panic("integer divide by zero")
                          ELSE Ok(IntVal(IntQuo(i.i, y.i)))
           [] OTHER -> Ok(Nil)

\* Int.Unary
IntUnary(i, op) ==
    CASE op = "-" -> Ok(IntVal(-i.i))
      [] op = "+" -> Ok(i)
      [] OTHER -> Ok(Nil)

\* String.Binary
StringBinary(s, op, y) ==
    IF op = "+" /\ y.kind = "string" THEN Ok(String(s.bytes \o y.bytes))
    ELSE Ok(Nil)

\* Int.Cmp: [cmp, err]
IntCmp(i, y) ==
    IF y.kind # "int" THEN [cmp |-> 0, err |-> "invalid cmp operator"]
    ELSE [cmp |-> IF i.i > y.i THEN 1 ELSE IF i.i < y.i THEN -1 ELSE 0, err |-> ""]

\* Bool.Compare
BoolCompare(b, op, y) ==
    IF y.kind # "bool" THEN Error(Nil, "invalid cmp operator")
    ELSE Ok(Bool(threeway(op, b2i(b.b) - b2i(y.b))))

HasBinary(v) == v.kind \in {"int", "string"}
ValueBinary(x, op, y) ==
    IF x.kind = "int" THEN IntBinary(x, op, y) ELSE StringBinary(x, op, y)

Unary(op, x) ==
    IF op = "!" THEN (IF TruthPanics(x) THEN Panic(NilDeref) ELSE Ok(Bool(~Truth(x))))
    ELSE LET r == IF x.kind = "int" THEN IntUnary(x, op) ELSE Ok(Nil)
         IN  IF r.val # Nil \/ Failed(r) THEN r
             ELSE Error(Nil, "unknown unary operator")

Binary(op, x, y) ==
    LET r1 == IF HasBinary(x) THEN ValueBinary(x, op, y) ELSE Ok(Nil)
        r2 == IF HasBinary(y) THEN ValueBinary(y, op, x) ELSE Ok(Nil)
    IN  IF r1.val # Nil \/ Failed(r1) THEN r1
        ELSE IF r2.val # Nil \/ Failed(r2) THEN r2
        ELSE Error(Nil, "unknown binary operator")

\* Compare deciding every pair of operands of one type by equality
CompareAnySameType(op, x, y) ==
    IF isSameType(x, y) THEN Ok(Bool(threeway(op, IF x = y THEN 0 ELSE 1)))
    ELSE Error(Nil, "invalid cmp operator")

Compare(op, x, y) ==
    IF Type(x) = "panic" \/ Type(y) = "panic" THEN Panic(NilDeref)
    ELSE IF isSameType(x, y) /\ x.kind = "bool" THEN BoolCompare(x, op, y)
    ELSE IF isSameType(x, y) /\ x.kind = "int" THEN
        LET t == IntCmp(x, y)
        IN  IF t.err # "" THEN Error(False, t.err)
            ELSE Ok(Bool(threeway(op, t.cmp)))
    ELSE Error(Nil, "invalid cmp operator")

\* Map.Get: [val, found, err, panic]
MapGet(m, v) ==
    LET hash == Hash(v)
    IN  IF hash.panic # "" THEN [val |-> Nil, found |-> FALSE, err |-> "", panic |-> hash.panic]
        ELSE IF hash.err # "" THEN [val |-> Nil, found |-> FALSE, err |-> hash.err, panic |-> ""]
        ELSE IF hash.h \in DOMAIN m.entries
             THEN [val |-> m.entries[hash.h].Val, found |-> TRUE, err |-> "", panic |-> ""]
        ELSE [val |-> Null, found |-> FALSE, err |-> "", panic |-> ""]

\* String.Len: the number of runes (of valid UTF-8: the bytes that are not
\* continuation bytes)
RuneCount(bytes) == Cardinality({k \in 1..Len(bytes) : bytes[k] < 128 \/ bytes[k] >= 192})

\* Indexable.Len
ValueLen(v) == IF v.kind = "string" THEN RuneCount(v.bytes) ELSE Len(v.items)

\* Indexable.Index(i) for a Go index i (0-based): s[i:i+1] or a.items[i]
ValueIndex(v, i) ==
    IF v.kind = "string"
    THEN IF i < 0 \/ i + 1 > Len(v.bytes) THEN Panic("slice bounds out of range")
         ELSE Ok(String(<<v.bytes[i + 1]>>))
    ELSE IF i < 0 \/ i >= Len(v.items) THEN Panic("index out of range")
         ELSE Ok(v.items[i + 1])

parseIndexExpr(left, index) ==
    CASE left.kind = "map" ->
            LET g == MapGet(left, index)
            IN  IF g.panic # "" THEN Panic(g.panic)
                ELSE IF g.err # "" THEN Error(Nil, g.err)
                ELSE IF g.found THEN Ok(g.val)
                ELSE Ok(Null)
      [] left.kind \in {"string", "array"} ->
            IF index.kind # "int"
            THEN IF Type(index) = "panic" THEN Panic(NilDeref)
                 ELSE Error(Nil, "invalid index type")
            ELSE LET iv == IF index.i < 0 THEN ValueLen(left) + index.i ELSE index.i
                 IN  ValueIndex(left, iv)
      [] OTHER ->
            IF Type(left) = "panic" THEN Panic(NilDeref)
            ELSE Error(Nil, "index operator not supported")

(***************************************************************************)
(* monkey/env.go: environments.  The heap is the sequence of frames ever   *)
(* allocated; a *Env is an index into it and 0 is the nil *Env.            *)
(***************************************************************************)
EmptyStore == [n \in {} |-> Nil]

\* NewEnv linking the new frame to the frame allocated last (the caller's,
\* when a call is made from a function body) instead of the given outer
NewEnvLatest(outer, heap) ==
    [heap |-> Append(heap, [store |-> EmptyStore, outer |-> Len(heap)]),
     env |-> Len(heap) + 1]

\* NewEnv(outer): [heap, env]
NewEnv(outer, heap) ==
    [heap |-> Append(heap, [store |-> EmptyStore, outer |-> outer]),
     env |-> Len(heap) + 1]

\* Set assigning to the nearest frame that already binds name, when there is
\* one
EnvSetExisting(heap, e, name, val) ==
    LET RECURSIVE Binder(_)
        Binder(f) ==
            IF name \in DOMAIN heap[f].store THEN f
            ELSE IF heap[f].outer # 0 THEN Binder(heap[f].outer)
            ELSE 0
        b == Binder(e)
        t == IF b = 0 THEN e ELSE b
    IN  [heap EXCEPT ![t].store =
            [n \in (DOMAIN @) \cup {name} |-> IF n = name THEN val ELSE @[n]]]

\* e.Set(name, val)
EnvSet(heap, e, name, val) ==
    [heap EXCEPT ![e].store =
        [n \in (DOMAIN @) \cup {name} |-> IF n = name THEN val ELSE @[n]]]

\* Get that looks in the local frame only
EnvGetLocal(heap, e, name) ==
    IF name \in DOMAIN heap[e].store
    THEN [val |-> heap[e].store[name], ok |-> TRUE]
    ELSE [val |-> Nil, ok |-> FALSE]

RECURSIVE EnvGet(_, _, _)
\* e.Get(name): [val, ok]
EnvGet(heap, e, name) ==
    IF name \in DOMAIN heap[e].store
    THEN [val |-> heap[e].store[name], ok |-> TRUE]
    ELSE IF heap[e].outer # 0 THEN EnvGet(heap, heap[e].outer, name)
    ELSE [val |-> Nil, ok |-> FALSE]

(***************************************************************************)
(* Builtins (Universe).                                                    *)
(***************************************************************************)
Universe == {"len", "print"}

\* BuiltinFunction.CallInternal
CallInternal(b, args) ==
    IF b.name = "len" THEN
        IF Len(args) # 1 THEN Error(Nil, "wrong number of arguments")
        ELSE IF args[1].kind \in {"string", "array"} THEN Ok(IntVal(ValueLen(args[1])))
        ELSE IF Type(args[1]) = "panic" THEN Panic(NilDeref)
        ELSE Error(Nil, "argument to len not supported")
    ELSE IF \E k \in 1..Len(args) : Type(args[k]) = "panic" THEN Panic(NilDeref)
    ELSE Ok(Null)

(***************************************************************************)
(* monkey/eval.go: the evaluator.  st = [heap, log, ord]; log lists, in    *)
(* order of completion, the statements the loops of evalProgram and        *)
(* evalBlockStmt have evaluated, and the calls of user functions; ord is   *)
(* the order in which this run of the process ranges over Go maps.         *)
(***************************************************************************)
CmpOps == {"==", "!=", ">", ">=", "<", "<="}

Logged(st, entry) == [st EXCEPT !.log = Append(@, entry)]
StmtEntry(lvl, stmt, r) ==
    [ev |-> "stmt", lvl |-> lvl, Pos |-> stmt.Pos, stmt |-> stmt.node,
     name |-> IF stmt.node = "LetStmt" THEN stmt.Name.Ident ELSE "",
     val |-> r.val, err |-> r.err]

\* the order in which `range node.Pairs` visits n pairs: Go leaves it open,
\* ord picks it (the ord-th rotation, or its reverse)
PairOrder(n, ord) ==
    [k \in 1..n |->
        IF ord <= n THEN ((k + ord - 2) % n) + 1
        ELSE n - ((k + ord - 2) % n)]

RECURSIVE Eval(_, _, _)
RECURSIVE evalProgramFrom(_, _, _, _, _)
RECURSIVE evalBlockStmtFrom(_, _, _, _, _)
RECURSIVE evalExprsFrom(_, _, _, _, _)
RECURSIVE evalMapLiteralFrom(_, _, _, _, _, _)
RECURSIVE Call(_, _, _)

\* the loop of evalProgram going on to the next statement after an error
evalProgramFromSkip(stmts, i, env, st, value) ==
    IF i > Len(stmts) THEN WithSt(Ok(value), st)
    ELSE LET Then(r) ==
                LET st1 == Logged(r.st, StmtEntry("program", stmts[i], r))
                IN  IF r.panic # "" THEN r
                    ELSE IF r.err # "" THEN evalProgramFrom(stmts, i + 1, env, st1, value)
                    ELSE IF r.val.kind = "returnValue" THEN WithSt(Ok(r.val.inner), st1)
                    ELSE evalProgramFrom(stmts, i + 1, env, st1, r.val)
         IN  Then(Eval(stmts[i], env, st))

\* the loop of evalProgram from statement i on, value being the latest value
evalProgramFrom(stmts, i, env, st, value) ==
    IF i > Len(stmts) THEN WithSt(Ok(value), st)
    ELSE LET Then(r) ==
                LET st1 == Logged(r.st, StmtEntry("program", stmts[i], r))
                IN  IF r.panic # "" THEN r
                    ELSE IF r.err # "" THEN WithSt(Error(Nil, r.err), st1)
                    ELSE IF r.val.kind = "returnValue" THEN WithSt(Ok(r.val.inner), st1)
                    ELSE evalProgramFrom(stmts, i + 1, env, st1, r.val)
         IN  Then(Eval(stmts[i], env, st))

evalProgram(program, env, st) == evalProgramFrom(program.Stmts, 1, env, st, Null)

\* the loop of evalBlockStmt
evalBlockStmtFrom(stmts, i, env, st, value) ==
    IF i > Len(stmts) THEN WithSt(Ok(value), st)
    ELSE LET Then(r) ==
                LET st1 == Logged(r.st, StmtEntry("block", stmts[i], r))
                IN  IF r.panic # "" THEN r
                    ELSE IF r.err # "" THEN WithSt(Error(Nil, r.err), st1)
                    ELSE IF r.val.kind = "returnValue" THEN WithSt(Ok(r.val), st1)
                    ELSE evalBlockStmtFrom(stmts, i + 1, env, st1, r.val)
         IN  Then(Eval(stmts[i], env, st))

evalBlockStmt(block, env, st) == evalBlockStmtFrom(block.Stmts, 1, env, st, Nil)

\* evalExprs: [vals, err, panic, st]
evalExprsFrom(exprs, i, env, st, values) ==
    IF i > Len(exprs) THEN [vals |-> values, err |-> "", panic |-> "", st |-> st]
    ELSE LET Then(r) ==
                IF Failed(r)
                THEN [vals |-> <<>>, err |-> r.err, panic |-> r.panic, st |-> r.st]
                ELSE evalExprsFrom(exprs, i + 1, env, r.st, Append(values, r.val))
         IN  Then(Eval(exprs[i], env, st))

evalExprs(exprs, env, st) == evalExprsFrom(exprs, 1, env, st, <<>>)

\* the loop of evalMapLiteral over the pairs in the order `order`
evalMapLiteralFrom(pairs, order, k, env, st, entries) ==
    IF k > Len(pairs) THEN WithSt(Ok(Map(entries)), st)
    ELSE LET pair == pairs[order[k]]
             Store(key, hash, val) ==
                IF Failed(val) THEN Propagate(val)
                ELSE evalMapLiteralFrom(pairs, order, k + 1, env, val.st,
                        [h \in (DOMAIN entries) \cup {hash.h} |->
                            IF h = hash.h THEN MapEntry(key.val, val.val)
                            ELSE entries[h]])
             Hashed(key, hash) ==
                IF Failed(key) THEN Propagate(key)
                ELSE IF hash.panic # "" THEN WithSt(Panic(hash.panic), key.st)
                ELSE IF hash.err # "" THEN WithSt(Error(Nil, hash.err), key.st)
                ELSE Store(key, hash, Eval(pair[2], env, key.st))
             Keyed(key) == Hashed(key, Hash(key.val))
         IN  Keyed(Eval(pair[1], env, st))

evalMapLiteral(node, env, st) ==
    evalMapLiteralFrom(node.Pairs, PairOrder(Len(node.Pairs), st.ord), 1, env, st,
                       [h \in {} |-> MapEntry(Nil, Nil)])

Call(value, args, st) ==
    CASE value.kind = "function" ->
            LET new == NewEnv(value.Env, st.heap)
                \* the parameters bound before args[idx] leaves the slice
                nbound == IF Len(args) < Len(value.Params) THEN Len(args)
                          ELSE Len(value.Params)
                RECURSIVE SetParams(_, _)
                SetParams(heap, idx) ==
                    IF idx > nbound THEN heap
                    ELSE SetParams(EnvSet(heap, new.env, value.Params[idx], args[idx]),
                                   idx + 1)
                st1 == Logged([st EXCEPT !.heap = SetParams(new.heap, 1)],
                              [ev |-> "call", fn |-> value, frame |-> new.env,
                               nargs |-> Len(args)])
                Return(result) ==
                    IF Failed(result) THEN Propagate(result)
                    ELSE IF result.val.kind = "returnValue"
                         THEN WithSt(Ok(result.val.inner), result.st)
                    ELSE WithSt(Ok(value), result.st)
            IN  IF Len(args) < Len(value.Params)
                THEN WithSt(Panic("index out of range"), st1)
                ELSE Return(evalBlockStmt(value.Body, new.env, st1))
      [] value.kind = "builtin_function" -> WithSt(CallInternal(value, args), st)
      [] OTHER -> IF Type(value) = "panic" THEN WithSt(Panic(NilDeref), st)
                  ELSE WithSt(Error(Nil, "invalid call of non-function"), st)

Eval(node, env, st) ==
    CASE node.node = "Program" -> evalProgram(node, env, st)
      [] node.node = "ExprStmt" -> Eval(node.Expr, env, st)
      [] node.node = "IntegerLiteral" -> WithSt(Ok(IntVal(node.IntValue)), st)
      [] node.node = "Boolean" -> WithSt(Ok(Bool(node.BoolValue)), st)
      [] node.node = "StringLiteral" -> WithSt(Ok(String(node.StrValue)), st)
      [] node.node = "ArrayLiteral" ->
            LET Then(items) ==
                    IF Failed(items)
                    THEN [val |-> Nil, err |-> items.err, panic |-> items.panic,
                          st |-> items.st]
                    ELSE WithSt(Ok(Array(items.vals)), items.st)
            IN  Then(evalExprs(node.Items, env, st))
      [] node.node = "MapLiteral" -> evalMapLiteral(node, env, st)
      [] node.node = "IndexExpr" ->
            LET Indexed(left, index) ==
                    IF Failed(index) THEN Propagate(index)
                    ELSE WithSt(parseIndexExpr(left.val, index.val), index.st)
                Then(left) ==
                    IF Failed(left) THEN Propagate(left)
                    ELSE Indexed(left, Eval(node.Index, env, left.st))
            IN  Then(Eval(node.Left, env, st))
      [] node.node = "PrefixExpr" ->
            LET Then(right) ==
                    IF Failed(right) THEN Propagate(right)
                    ELSE WithSt(Unary(node.Op, right.val), right.st)
            IN  Then(Eval(node.Right, env, st))
      [] node.node = "InfixExpr" ->
            LET Applied(left, right) ==
                    IF Failed(right) THEN Propagate(right)
                    ELSE IF node.Op \in CmpOps
                         THEN WithSt(Compare(node.Op, left.val, right.val), right.st)
                    ELSE WithSt(Binary(node.Op, left.val, right.val), right.st)
                Then(left) ==
                    IF Failed(left) THEN Propagate(left)
                    ELSE Applied(left, Eval(node.Right, env, left.st))
            IN  Then(Eval(node.Left, env, st))
      [] node.node = "BlockStmt" -> evalBlockStmt(node, env, st)
      [] node.node = "IfExpr" ->
            LET Then(cond) ==
                    IF Failed(cond) THEN Propagate(cond)
                    ELSE IF TruthPanics(cond.val) THEN WithSt(Panic(NilDeref), cond.st)
                    ELSE IF Truth(cond.val)
                         THEN evalBlockStmt(node.Consequence, env, cond.st)
                    ELSE IF node.Alternative # NoBlock
                         THEN evalBlockStmt(node.Alternative, env, cond.st)
                    ELSE WithSt(Ok(Null), cond.st)
            IN  Then(Eval(node.Cond, env, st))
      [] node.node = "ReturnStmt" ->
            LET Then(val) ==
                    IF Failed(val) THEN Propagate(val)
                    ELSE WithSt(Ok(returnValue(val.val)), val.st)
            IN  Then(Eval(node.Value, env, st))
      [] node.node = "LetStmt" ->
            LET Then(value) ==
                    IF Failed(value) THEN Propagate(value)
                    ELSE WithSt(Ok(Null),
                            [value.st EXCEPT !.heap =
                                EnvSet(@, env, node.Name.Ident, value.val)])
            IN  Then(Eval(node.Value, env, st))
      [] node.node = "Identifier" ->
            LET got == EnvGet(st.heap, env, node.Ident)
            IN  IF got.ok THEN WithSt(Ok(got.val), st)
                ELSE IF node.Ident \in Universe
                     THEN WithSt(Ok(BuiltinFunction(node.Ident)), st)
                ELSE WithSt(Error(Nil, "identifier not found"), st)
      [] node.node = "FunctionLiteral" ->
            WithSt(Ok(Function(node.Params, node.Body, env)), st)
      [] node.node = "CallExpr" ->
            LET Applied(function, args) ==
                    IF Failed(args)
                    THEN [val |-> Nil, err |-> args.err, panic |-> args.panic,
                          st |-> args.st]
                    ELSE Call(function.val, args.vals, args.st)
                Then(function) ==
                    IF Failed(function) THEN Propagate(function)
                    ELSE Applied(function, evalExprs(node.Args, env, function.st))
            IN  Then(Eval(node.Function, env, st))
      [] OTHER -> WithSt(Ok(Null), st)

(***************************************************************************)
(* The programs the model evaluates, as the parser hands them to Eval.     *)
(* Pos numbers the statements of a program in source order.  Strings are   *)
(* their bytes: "a" is <<97>>, "b" is <<98>>.                              *)
(***************************************************************************)
Call0(name) == CallExpr(Identifier(name), <<>>)
Lit(n) == IF n < 0 THEN PrefixExpr("-", IntegerLiteral(-n)) ELSE IntegerLiteral(n)

\* fn(a, b) { a + b }
FnAdd(p) ==
    FunctionLiteral(<<"a", "b">>, BlockStmt(<<
        ExprStmt(p + 1, InfixExpr("+", Identifier("a"), Identifier("b")))>>))
\* fn(n) { if (n < 2) { if (n < 1) { return 10 } else { return 11 }; let z = 1 };
\*         let w = n; return w + 1 }
FnH(p) ==
    FunctionLiteral(<<"n">>, BlockStmt(<<
        ExprStmt(p + 1, IfExpr(InfixExpr("<", Identifier("n"), IntegerLiteral(2)),
            BlockStmt(<<
                ExprStmt(p + 2, IfExpr(InfixExpr("<", Identifier("n"), IntegerLiteral(1)),
                    BlockStmt(<<ReturnStmt(p + 3, IntegerLiteral(10))>>),
                    BlockStmt(<<ReturnStmt(p + 4, IntegerLiteral(11))>>))),
                LetStmt(p + 5, "z", IntegerLiteral(1))>>),
            NoBlock)),
        LetStmt(p + 6, "w", Identifier("n")),
        ReturnStmt(p + 7, InfixExpr("+", Identifier("w"), IntegerLiteral(1)))>>))
\* fn() { }
FnE == FunctionLiteral(<<>>, BlockStmt(<<>>))
\* fn(n) { return if (n < 1) { return 1 } }
FnR(p) ==
    FunctionLiteral(<<"n">>, BlockStmt(<<
        ReturnStmt(p + 1, IfExpr(InfixExpr("<", Identifier("n"), IntegerLiteral(1)),
            BlockStmt(<<ReturnStmt(p + 2, IntegerLiteral(1))>>), NoBlock))>>))
\* fn() { return y }
FnF(p) == FunctionLiteral(<<>>, BlockStmt(<<ReturnStmt(p + 1, Identifier("y"))>>))
\* fn() { let y = 1; return f() }
FnG(p) ==
    FunctionLiteral(<<>>, BlockStmt(<<
        LetStmt(p + 1, "y", IntegerLiteral(1)),
        ReturnStmt(p + 2, Call0("f"))>>))
\* fn() { let x = if (true) { return 1 }; 2 }
FnQ(p) ==
    FunctionLiteral(<<>>, BlockStmt(<<
        LetStmt(p + 1, "x", IfExpr(Boolean(TRUE),
            BlockStmt(<<ReturnStmt(p + 2, IntegerLiteral(1))>>), NoBlock)),
        ExprStmt(p + 3, IntegerLiteral(2))>>))
\* fn(a) { let y = a; let in = fn() { let y = 3; return y }; return in() + y }
FnK(p) ==
    FunctionLiteral(<<"a">>, BlockStmt(<<
        LetStmt(p + 1, "y", Identifier("a")),
        LetStmt(p + 2, "in", FunctionLiteral(<<>>, BlockStmt(<<
            LetStmt(p + 3, "y", IntegerLiteral(3)),
            ReturnStmt(p + 4, Identifier("y"))>>))),
        ReturnStmt(p + 5, InfixExpr("+", Call0("in"), Identifier("y")))>>))

\* let add = fn(a, b) {..}; let h = fn(n) {..}; let e = fn() {}; let r = fn(n) {..}
Defs1 ==
    Program(<<LetStmt(1, "add", FnAdd(1)), LetStmt(3, "h", FnH(3)),
              LetStmt(11, "e", FnE), LetStmt(12, "r", FnR(12))>>)
\* let f = fn() {..}; let g = fn() {..}; let q = fn() {..}; let k = fn(a) {..}
Defs2 ==
    Program(<<LetStmt(1, "f", FnF(1)), LetStmt(3, "g", FnG(3)),
              LetStmt(6, "q", FnQ(6)), LetStmt(10, "k", FnK(10))>>)
\* let y = 5
DefY == Program(<<LetStmt(1, "y", IntegerLiteral(5))>>)

\* add(2, 3)
UseAdd == Program(<<ExprStmt(1, CallExpr(Identifier("add"),
                        <<IntegerLiteral(2), IntegerLiteral(3)>>))>>)
\* add(1)
UseAddFew == Program(<<ExprStmt(1, CallExpr(Identifier("add"), <<IntegerLiteral(1)>>))>>)
\* h(0, 1)
UseHMany == Program(<<ExprStmt(1, CallExpr(Identifier("h"),
                        <<IntegerLiteral(0), IntegerLiteral(1)>>))>>)
\* g()
UseG == Program(<<ExprStmt(1, Call0("g"))>>)
\* q()
UseQ == Program(<<ExprStmt(1, Call0("q"))>>)
\* return if (true) { return 1 }
RetIfRet ==
    Program(<<ReturnStmt(1, IfExpr(Boolean(TRUE),
        BlockStmt(<<ReturnStmt(2, IntegerLiteral(1))>>), NoBlock))>>)
\* if (true) { return 7 }; 8
IfRet ==
    Program(<<ExprStmt(1, IfExpr(Boolean(TRUE),
                BlockStmt(<<ReturnStmt(2, IntegerLiteral(7))>>), NoBlock)),
              ExprStmt(3, IntegerLiteral(8))>>)
\* 1 + if (true) { return 1 }
AddIfRet ==
    Program(<<ExprStmt(1, InfixExpr("+", IntegerLiteral(1), IfExpr(Boolean(TRUE),
                BlockStmt(<<ReturnStmt(2, IntegerLiteral(1))>>), NoBlock)))>>)
\* let a = 1; let b = zz; let c = 3
ErrIdent ==
    Program(<<LetStmt(1, "a", IntegerLiteral(1)),
              LetStmt(2, "b", Identifier("zz")),
              LetStmt(3, "c", IntegerLiteral(3))>>)
\* let a = 2; let y = 6; 1 + true; let c = 3
ErrBinary ==
    Program(<<LetStmt(1, "a", IntegerLiteral(2)),
              LetStmt(2, "y", IntegerLiteral(6)),
              ExprStmt(3, InfixExpr("+", IntegerLiteral(1), Boolean(TRUE))),
              LetStmt(4, "c", IntegerLiteral(3))>>)
\* let c = 4; if (true) { let a = 7; c(1) }; let a = 9
ErrCall ==
    Program(<<LetStmt(1, "c", IntegerLiteral(4)),
              ExprStmt(2, IfExpr(Boolean(TRUE), BlockStmt(<<
                    LetStmt(3, "a", IntegerLiteral(7)),
                    ExprStmt(4, CallExpr(Identifier("c"), <<IntegerLiteral(1)>>))>>),
                NoBlock)),
              LetStmt(5, "a", IntegerLiteral(9))>>)
\* x / y
Quo(x, y) == Program(<<ExprStmt(1, InfixExpr("/", Lit(x), Lit(y)))>>)
\* { k1: "a", k2: "b" }[k1]
MapProbe(k1, k2) ==
    Program(<<ExprStmt(1, IndexExpr(
        MapLiteral(<< <<k1, StringLiteral(<<97>>)>>, <<k2, StringLiteral(<<98>>)>> >>),
        k1))>>)

\* programs without a map literal, then those with one
PlainPrograms ==
    << Defs1, Defs2, DefY,
       UseAdd, UseAddFew, UseHMany, UseG, UseQ,
       RetIfRet, IfRet, AddIfRet, ErrIdent, ErrBinary, ErrCall,
       Quo(0, 0), Quo(1, 0), Quo(-1, 0), Quo(7, 2), Quo(-7, 2) >>
MapPrograms ==
    << MapProbe(IntegerLiteral(1), IntegerLiteral(1)),
       MapProbe(Boolean(TRUE), Boolean(TRUE)),
       MapProbe(StringLiteral(<<107>>), StringLiteral(<<107>>)),
       MapProbe(IntegerLiteral(1), IntegerLiteral(2)) >>
Programs == PlainPrograms \o MapPrograms

MaxOrd == 2        \* iteration orders of a Go map that the model tries
Orders(p) == IF p > Len(PlainPrograms) THEN 1..MaxOrd ELSE {1}

\* arguments of direct calls of Call
MaxArgs == 2
ArgVals == {IntVal(0), IntVal(1), IntVal(2)}
ArgLists == UNION {[1..n -> ArgVals] : n \in 0..MaxArgs}

(***************************************************************************)
(* The lexer (package syntax).  The input is a string, here a sequence of  *)
(* bytes below 224 (one- and two-byte UTF-8 sequences); a token is         *)
(* [pos, Type, Literal].                                                   *)
(***************************************************************************)
RuneError == 65533

\* utf8.DecodeRuneInString(input[cursor:]) for cursor < len(input)
DecodeRune(input, cursor) ==
    LET b == input[cursor + 1]
    IN  IF b < 128 THEN [r |-> b, s |-> 1]
        ELSE IF /\ b >= 194
                /\ b <= 223
                /\ cursor + 2 <= Len(input)
                /\ input[cursor + 2] >= 128
                /\ input[cursor + 2] <= 191
             THEN [r |-> (b - 192) * 64 + (input[cursor + 2] - 128), s |-> 2]
             ELSE [r |-> RuneError, s |-> 1]

\* string(ch)
EncodeRune(ch) ==
    IF ch < 128 THEN <<ch>>
    ELSE IF ch < 2048 THEN <<192 + (ch \div 64), 128 + (ch % 64)>>
    ELSE <<224 + (ch \div 4096), 128 + ((ch \div 64) % 64), 128 + (ch % 64)>>

MakePosition(line_, col) == [Line |-> line_, Col |-> col]

NewLexer(input) == [pos |-> MakePosition(1, 1), input |-> input, cursor |-> 0]

peekChar(l) ==
    IF l.cursor >= Len(l.input) THEN 0 ELSE DecodeRune(l.input, l.cursor).r

nextChar(l) ==
    IF l.cursor >= Len(l.input) THEN l
    ELSE LET Moved(d) ==
                 [l EXCEPT !.cursor = @ + d.s,
                           !.pos = IF d.r = 10 THEN MakePosition(@.Line + 1, 1)
                                   ELSE MakePosition(@.Line, @.Col + 1)]
         IN  Moved(DecodeRune(l.input, l.cursor))

isDigit(ch) == 48 <= ch /\ ch <= 57

\* unicode.IsLetter on the runes below 256 and on RuneError
IsLetter(c) ==
    \/ 65 <= c /\ c <= 90
    \/ 97 <= c /\ c <= 122
    \/ c \in {170, 181, 186}
    \/ 192 <= c /\ c <= 255 /\ c \notin {215, 247}

isIdentifierStart(c) ==
    \/ 97 <= c /\ c <= 122
    \/ 65 <= c /\ c <= 90
    \/ c = 95
    \/ IsLetter(c)

isIdentifier(c) == isIdentifierStart(c) \/ isDigit(c)

RECURSIVE skipWhitespace(_)
skipWhitespace(l) ==
    IF peekChar(l) \in {32, 9, 10, 13} THEN skipWhitespace(nextChar(l)) ELSE l

\* the loops of readNumber, readIdentifier and readString
RECURSIVE SkipDigits(_)
SkipDigits(l) == IF isDigit(peekChar(l)) THEN SkipDigits(nextChar(l)) ELSE l

RECURSIVE SkipIdentifier(_)
SkipIdentifier(l) ==
    IF isIdentifier(peekChar(l)) THEN SkipIdentifier(nextChar(l)) ELSE l

RECURSIVE SkipToQuote(_)
SkipToQuote(l) ==
    IF peekChar(l) # 34 /\ peekChar(l) # 0 THEN SkipToQuote(nextChar(l)) ELSE l

\* the readers return the lexer they leave and the text they read
readNumber(l) ==
    LET Read(m) == [l |-> m, text |-> SubSeq(l.input, l.cursor + 1, m.cursor)]
    IN  Read(SkipDigits(l))

readIdentifier(l) ==
    LET Read(m) == [l |-> m, text |-> SubSeq(l.input, l.cursor + 1, m.cursor)]
    IN  Read(SkipIdentifier(l))

readString(l) ==
    LET Read(start, m) ==
            [l |-> nextChar(m), text |-> SubSeq(l.input, start + 1, m.cursor)]
        Opened(m) == Read(m.cursor, SkipToQuote(m))
    IN  Opened(nextChar(l))

\* the keywords, spelled in bytes
keywords ==
    { <<<<108, 101, 116>>, "LET">>,
      <<<<105, 102>>, "IF">>,
      <<<<101, 108, 115, 101>>, "ELSE">>,
      <<<<116, 114, 117, 101>>, "TRUE">>,
      <<<<102, 97, 108, 115, 101>>, "FALSE">>,
      <<<<114, 101, 116, 117, 114, 110>>, "RETURN">>,
      <<<<102, 110>>, "FUNCTION">> }

LookupIdent(ident) ==
    IF \E k \in keywords : k[1] = ident
    THEN (CHOOSE k \in keywords : k[1] = ident)[2]
    ELSE "IDENT"

TokenValue(pos, type, literal) == [pos |-> pos, Type |-> type, Literal |-> literal]

createToken(t, ch, pos) == TokenValue(pos, t, EncodeRune(ch))

\* the token of operator character c followed by =, and of c alone
WithAssign(c) ==
    CASE c = 61 -> "EQ" [] c = 33 -> "NE" [] c = 43 -> "PLUS" [] c = 45 -> "MINUS"
      [] c = 42 -> "STAR" [] c = 47 -> "SLASH" [] c = 62 -> "GE" [] c = 60 -> "LE"

Alone(c) ==
    CASE c = 61 -> "ASSIGN" [] c = 33 -> "BANG" [] c = 43 -> "PLUS"
      [] c = 45 -> "MINUS" [] c = 42 -> "STAR" [] c = 47 -> "SLASH"
      [] c = 62 -> "GT" [] c = 60 -> "LT"

Punctuation(c) ==
    CASE c = 44 -> "COMMA" [] c = 58 -> "COLON" [] c = 59 -> "SEMICOLON"
      [] c = 40 -> "LPAREN" [] c = 41 -> "RPAREN" [] c = 123 -> "LBRACE"
      [] c = 125 -> "RBRACE" [] c = 91 -> "LBRACKET" [] c = 93 -> "RBRACKET"

\* an end of input that consumes the character it saw
EndOfFileConsuming(l, start) ==
    [l |-> nextChar(l), tok |-> TokenValue(start, "EOF", <<>>)]

\* case 0 of NextToken: nothing is consumed
EndOfFile(l, start) == [l |-> l, tok |-> TokenValue(start, "EOF", <<>>)]

\* NextToken returns the lexer it leaves and the token
NextToken(l0) ==
    LET Lexed(l) ==
            LET c == peekChar(l)
                start == l.pos
                Text(type, rd) == [l |-> rd.l, tok |-> TokenValue(start, type, rd.text)]
                Word(rd) == [l |-> rd.l, tok |-> TokenValue(start, LookupIdent(rd.text), rd.text)]
                Operator(m) ==
                    IF peekChar(m) = 61
                    THEN [l |-> nextChar(m),
                          tok |-> TokenValue(start, WithAssign(c), EncodeRune(c) \o <<61>>)]
                    ELSE [l |-> m, tok |-> createToken(Alone(c), c, start)]
            IN  CASE c \in {61, 33, 43, 45, 42, 47, 62, 60} -> Operator(nextChar(l))
                  [] c \in {44, 58, 59, 40, 41, 123, 125, 91, 93} ->
                        [l |-> nextChar(l), tok |-> createToken(Punctuation(c), c, start)]
                  [] c = 34 -> Text("STRING", readString(l))
                  [] c = 0 -> EndOfFile(l, start)
                  [] OTHER ->
                        IF isIdentifierStart(c) THEN Word(readIdentifier(l))
                        ELSE IF isDigit(c) THEN Text("INT", readNumber(l))
                        ELSE [l |-> l, tok |-> createToken("ILLEGAL", c, start)]
    IN  Lexed(skipWhitespace(l0))

(***************************************************************************)
(* The parser (package syntax).  The Parser is [l, curTok]: its lexer and  *)
(* the token it looks at.  A parse function returns [p, node, err]: the    *)
(* parser it leaves, the node (or the list of nodes) it built, and the     *)
(* error it panicked with, which unwinds to Parse's deferred recover:       *)
(* what follows a call is skipped when the call threw.                     *)
(***************************************************************************)
LOWEST == 1
EQUALS == 2
LESS_GREATER == 3
SUM == 4
PRODUCT == 5
PREFIX == 6
CALL == 7
INDEX == 8

\* a table that ranks + - above * /
precedenceSumOverProduct(t) ==
    CASE t \in {"EQ", "NE"} -> EQUALS
      [] t \in {"LT", "GT"} -> LESS_GREATER
      [] t \in {"PLUS", "MINUS"} -> PRODUCT
      [] t \in {"SLASH", "STAR"} -> SUM
      [] t = "LPAREN" -> CALL
      [] t = "LBRACKET" -> INDEX
      [] OTHER -> 0

\* the map precedence; 0 for a token that is not a key
precedence(t) ==
    CASE t \in {"EQ", "NE"} -> EQUALS
      [] t \in {"LT", "GT"} -> LESS_GREATER
      [] t \in {"PLUS", "MINUS"} -> SUM
      [] t \in {"SLASH", "STAR"} -> PRODUCT
      [] t = "LPAREN" -> CALL
      [] t = "LBRACKET" -> INDEX
      [] OTHER -> 0

\* Token.String(): the evaluator's nodes carry an operator token under
\* this name
tokenNames(t) ==
    CASE t = "ASSIGN" -> "=" [] t = "PLUS" -> "+" [] t = "MINUS" -> "-"
      [] t = "STAR" -> "*" [] t = "SLASH" -> "/" [] t = "BANG" -> "!"
      [] t = "LT" -> "<" [] t = "LE" -> "<=" [] t = "GT" -> ">"
      [] t = "GE" -> ">=" [] t = "EQ" -> "==" [] t = "NE" -> "!="
      [] OTHER -> t

NoNode == [node |-> "nil"]
NoPosition == MakePosition(0, 0)

\* the errors the parser panics with
NoError == [kind |-> "", want |-> "", got |-> "", literal |-> <<>>, pos |-> NoPosition]
ExpectedError(t, curTok) ==
    [kind |-> "expected next token", want |-> t, got |-> curTok.Type,
     literal |-> curTok.Literal, pos |-> curTok.pos]
NoPrefixParseFnError(t) ==
    [kind |-> "no prefix parse function", want |-> "", got |-> t,
     literal |-> <<>>, pos |-> NoPosition]
ParseIntError(literal) ==
    [kind |-> "could not parse as integer", want |-> "", got |-> "",
     literal |-> literal, pos |-> NoPosition]

Parsed(p, node) == [p |-> p, node |-> node, err |-> NoError]
Thrown(p, e) == [p |-> p, node |-> NoNode, err |-> e]
Threw(r) == r.err.kind # ""

nextToken(p) ==
    LET Got(r) == [l |-> r.l, curTok |-> r.tok]
    IN  Got(NextToken(p.l))

curTokenIs(p, t) == p.curTok.Type = t

expect(p, t) ==
    IF curTokenIs(p, t) THEN Parsed(p, NoNode)
    ELSE Thrown(p, ExpectedError(t, p.curTok))

consume(p, t) ==
    IF p.curTok.Type = t THEN Parsed(nextToken(p), NoNode)
    ELSE Thrown(p, ExpectedError(t, p.curTok))

curPrecedence(p) ==
    IF precedence(p.curTok.Type) # 0 THEN precedence(p.curTok.Type) ELSE LOWEST

\* strconv.ParseInt(raw, 0, 64) on a string of digits short enough for its
\* value to be below 2^31: a leading 0 announces octal digits
RECURSIVE DigitsValue(_, _)
DigitsValue(raw, base) ==
    IF raw = <<>> THEN 0
    ELSE DigitsValue(SubSeq(raw, 1, Len(raw) - 1), base) * base + (raw[Len(raw)] - 48)

IsOctal(raw) == Len(raw) > 1 /\ raw[1] = 48
ParseIntFails(raw) == IsOctal(raw) /\ \E k \in DOMAIN raw : raw[k] \in {56, 57}
ParseInt(raw) == IF IsOctal(raw) THEN DigitsValue(raw, 8) ELSE DigitsValue(raw, 10)

prefixParseFns ==
    {"IDENT", "INT", "TRUE", "FALSE", "BANG", "PLUS", "MINUS", "LPAREN", "LBRACE",
     "LBRACKET", "IF", "FUNCTION", "STRING"}
infixParseFns ==
    {"PLUS", "MINUS", "STAR", "SLASH", "EQ", "NE", "LT", "GT", "LPAREN", "LBRACKET"}

\* The parse functions call one another recursively.  The ones a cycle
\* passes through are the arms of one recursive operator, Parser, defined
\* below; these are their calls.
RECURSIVE Parser(_, _, _)
parseStmt(p) == Parser("parseStmt", p, 0)
parseExpr(p, prec) == Parser("parseExpr", p, prec)
parseExprInfixes(leftExp, prec) == Parser("parseExprInfixes", leftExp, prec)
parseExprList(p, end) == Parser("parseExprList", p, end)
parseExprListRest(p, exprs) == Parser("parseExprListRest", p, exprs)
parseMapPairs(p, pairs) == Parser("parseMapPairs", p, pairs)
parseBlockStmts(p, stmts) == Parser("parseBlockStmts", p, stmts)
parseBlockStmt(p) == Parser("parseBlockStmt", p, 0)

\* the optional semicolon that ends a statement
SkipSemicolon(p) == IF curTokenIs(p, "SEMICOLON") THEN nextToken(p) ELSE p

parseLetStmt(p) ==
    LET Named(q) ==
            LET Valued(r) == IF Threw(r) THEN r ELSE Parsed(SkipSemicolon(r.p),
                                    LetStmt(p.curTok.pos, q.curTok.Literal, r.node))
                Assigned(c) == IF Threw(c) THEN c ELSE Valued(parseExpr(c.p, LOWEST))
                Identified(c) == IF Threw(c) THEN c ELSE Assigned(consume(c.p, "ASSIGN"))
            IN  Identified(consume(q, "IDENT"))
    IN  Named(nextToken(p))

parseReturnStmt(p) ==
    LET Valued(r) == IF Threw(r) THEN r ELSE Parsed(SkipSemicolon(r.p), ReturnStmt(p.curTok.pos, r.node))
    IN  Valued(parseExpr(nextToken(p), LOWEST))

parseExprStmt(p) ==
    LET Valued(r) == IF Threw(r) THEN r ELSE Parsed(SkipSemicolon(r.p), ExprStmt(0, r.node))
    IN  Valued(parseExpr(p, LOWEST))

parseIdentifier(p) == Parsed(nextToken(p), Identifier(p.curTok.Literal))

parseIntegerLiteral(p) ==
    LET Read(q) ==
            IF ParseIntFails(p.curTok.Literal)
            THEN Thrown(q, ParseIntError(q.curTok.Literal))
            ELSE Parsed(q, IntegerLiteral(ParseInt(p.curTok.Literal)))
    IN  Read(nextToken(p))

parseStringLiteral(p) == Parsed(nextToken(p), StringLiteral(p.curTok.Literal))

parseBoolean(p) == Parsed(nextToken(p), Boolean(curTokenIs(p, "TRUE")))

parsePrefixExpr(p) ==
    LET Made(r) == IF Threw(r) THEN r ELSE Parsed(r.p, PrefixExpr(tokenNames(p.curTok.Type), r.node))
    IN  Made(parseExpr(nextToken(p), PREFIX))

parseInfixExpr(p, left) ==
    LET Made(r) == IF Threw(r) THEN r ELSE Parsed(r.p, InfixExpr(tokenNames(p.curTok.Type), left, r.node))
    IN  Made(parseExpr(nextToken(p), curPrecedence(p)))

parseGroupedExpr(p) ==
    LET Grouped(r) == IF Threw(r) THEN r ELSE
            LET Closed(c) == IF Threw(c) THEN c ELSE Parsed(c.p, r.node)
            IN  Closed(consume(r.p, "RPAREN"))
    IN  Grouped(parseExpr(nextToken(p), LOWEST))

parseArrayLiteral(p) ==
    LET Listed(r) == IF Threw(r) THEN r ELSE
            LET Closed(c) == IF Threw(c) THEN c ELSE Parsed(c.p, ArrayLiteral(r.node))
            IN  Closed(consume(r.p, "RBRACKET"))
    IN  Listed(parseExprList(nextToken(p), "RBRACKET"))

parseMapLiteral(p) == parseMapPairs(nextToken(p), <<>>)

parseIfExpr(p) ==
    LET Conditioned(cond) == IF Threw(cond) THEN cond ELSE
            LET Consequent(cons) == IF Threw(cons) THEN cons ELSE
                    LET Alternative(alt) == IF Threw(alt) THEN alt ELSE
                            Parsed(alt.p, IfExpr(cond.node, cons.node, alt.node))
                        Else(c) == IF Threw(c) THEN c ELSE Alternative(parseBlockStmt(c.p))
                    IN  IF curTokenIs(cons.p, "ELSE")
                        THEN Else(expect(nextToken(cons.p), "LBRACE"))
                        ELSE Parsed(cons.p, IfExpr(cond.node, cons.node, NoBlock))
                Braced(c) == IF Threw(c) THEN c ELSE Consequent(parseBlockStmt(c.p))
                Closed(c) == IF Threw(c) THEN c ELSE Braced(expect(c.p, "LBRACE"))
            IN  Closed(consume(cond.p, "RPAREN"))
        Opened(c) == IF Threw(c) THEN c ELSE Conditioned(parseExpr(c.p, LOWEST))
    IN  Opened(consume(nextToken(p), "LPAREN"))

\* the loop of parseFunctionParams, with the identifiers read so far
RECURSIVE parseFunctionParamsRest(_, _)
parseFunctionParamsRest(p, identifiers) ==
    IF curTokenIs(p, "COMMA")
    THEN LET Named(q) ==
                 parseFunctionParamsRest(nextToken(q), Append(identifiers, q.curTok.Literal))
         IN  Named(nextToken(p))
    ELSE LET Closed(c) == IF Threw(c) THEN c ELSE Parsed(c.p, identifiers)
         IN  Closed(consume(p, "RPAREN"))

parseFunctionParams(p) ==
    LET Begun(q) ==
            IF curTokenIs(q, "RPAREN") THEN Parsed(nextToken(q), <<>>)
            ELSE parseFunctionParamsRest(nextToken(q), <<q.curTok.Literal>>)
    IN  Begun(nextToken(p))

parseFunctionLiteral(p) ==
    LET Listed(params) == IF Threw(params) THEN params ELSE
            LET Bodied(body) == IF Threw(body) THEN body ELSE Parsed(body.p, FunctionLiteral(params.node, body.node))
                Braced(c) == IF Threw(c) THEN c ELSE Bodied(parseBlockStmt(c.p))
            IN  Braced(expect(params.p, "LBRACE"))
        Opened(c) == IF Threw(c) THEN c ELSE Listed(parseFunctionParams(c.p))
    IN  Opened(expect(nextToken(p), "LPAREN"))

parseCallExpr(p, function) ==
    LET Opened(o) == IF Threw(o) THEN o ELSE
            LET Listed(r) == IF Threw(r) THEN r ELSE
                    LET Closed(c) == IF Threw(c) THEN c ELSE Parsed(c.p, CallExpr(function, r.node))
                    IN  Closed(consume(r.p, "RPAREN"))
            IN  Listed(parseExprList(o.p, "RPAREN"))
    IN  Opened(consume(p, "LPAREN"))

parseIndexExprNode(p, left) ==
    LET Opened(o) == IF Threw(o) THEN o ELSE
            LET Indexed(r) == IF Threw(r) THEN r ELSE
                    LET Closed(c) == IF Threw(c) THEN c ELSE Parsed(c.p, IndexExpr(left, r.node))
                    IN  Closed(consume(r.p, "RBRACKET"))
            IN  Indexed(parseExpr(o.p, LOWEST))
    IN  Opened(consume(p, "LBRACKET"))

\* prefixParseFns[t]() and infixParseFns[t](left)
PrefixParse(p) ==
    CASE p.curTok.Type = "IDENT" -> parseIdentifier(p)
      [] p.curTok.Type = "INT" -> parseIntegerLiteral(p)
      [] p.curTok.Type \in {"TRUE", "FALSE"} -> parseBoolean(p)
      [] p.curTok.Type \in {"BANG", "PLUS", "MINUS"} -> parsePrefixExpr(p)
      [] p.curTok.Type = "LPAREN" -> parseGroupedExpr(p)
      [] p.curTok.Type = "LBRACE" -> parseMapLiteral(p)
      [] p.curTok.Type = "LBRACKET" -> parseArrayLiteral(p)
      [] p.curTok.Type = "IF" -> parseIfExpr(p)
      [] p.curTok.Type = "FUNCTION" -> parseFunctionLiteral(p)
      [] p.curTok.Type = "STRING" -> parseStringLiteral(p)

InfixParse(p, left) ==
    CASE p.curTok.Type = "LPAREN" -> parseCallExpr(p, left)
      [] p.curTok.Type = "LBRACKET" -> parseIndexExprNode(p, left)
      [] OTHER -> parseInfixExpr(p, left)

\* The bodies of the recursive parse functions.  p is the parser (for
\* parseExprInfixes the result of parsing the left expression), x the second
\* argument: a precedence, the end token, or the nodes a loop has read so far.
Parser(fn, p, x) ==
    CASE fn = "parseStmt" ->
            CASE p.curTok.Type = "LET" -> parseLetStmt(p)
              [] p.curTok.Type = "RETURN" -> parseReturnStmt(p)
              [] OTHER -> parseExprStmt(p)
      [] fn = "parseExpr" ->
            IF p.curTok.Type \notin prefixParseFns
            THEN Thrown(p, NoPrefixParseFnError(p.curTok.Type))
            ELSE LET Prefixed(leftExp) ==
                         IF Threw(leftExp) THEN leftExp ELSE parseExprInfixes(leftExp, x)
                 IN  Prefixed(PrefixParse(p))
      [] fn = "parseExprInfixes" ->
            \* the loop of parseExpr
            IF ~curTokenIs(p.p, "SEMICOLON") /\ x < curPrecedence(p.p)
            THEN IF p.p.curTok.Type \notin infixParseFns THEN p
                 ELSE LET Folded(left) ==
                              IF Threw(left) THEN left ELSE parseExprInfixes(left, x)
                      IN  Folded(InfixParse(p.p, p.node))
            ELSE p
      [] fn = "parseExprList" ->
            IF curTokenIs(p, x) THEN Parsed(p, <<>>)
            ELSE LET First(r) ==
                         IF Threw(r) THEN r ELSE parseExprListRest(r.p, <<r.node>>)
                 IN  First(parseExpr(p, LOWEST))
      [] fn = "parseExprListRest" ->
            \* the loop of parseExprList
            IF curTokenIs(p, "COMMA")
            THEN LET More(r) ==
                         IF Threw(r) THEN r ELSE parseExprListRest(r.p, Append(x, r.node))
                     Separated(c) == IF Threw(c) THEN c ELSE More(parseExpr(c.p, LOWEST))
                 IN  Separated(consume(p, "COMMA"))
            ELSE Parsed(p, x)
      [] fn = "parseMapPairs" ->
            \* the loop of parseMapLiteral
            IF ~curTokenIs(p, "RBRACE")
            THEN LET Separated(k, v, c) ==
                         IF Threw(c) THEN c
                         ELSE parseMapPairs(c.p, Append(x, <<k.node, v.node>>))
                     Valued(k, v) ==
                         IF Threw(v) THEN v
                         ELSE IF ~curTokenIs(v.p, "RBRACE")
                              THEN Separated(k, v, consume(v.p, "COMMA"))
                              ELSE Separated(k, v, v)
                     Coloned(k, c) ==
                         IF Threw(c) THEN c ELSE Valued(k, parseExpr(c.p, LOWEST))
                     Keyed(k) == IF Threw(k) THEN k ELSE Coloned(k, consume(k.p, "COLON"))
                 IN  Keyed(parseExpr(p, LOWEST))
            ELSE LET Closed(c) == IF Threw(c) THEN c ELSE Parsed(c.p, MapLiteral(x))
                 IN  Closed(consume(p, "RBRACE"))
      [] fn = "parseBlockStmts" ->
            \* the loop of parseBlockStmt
            IF ~curTokenIs(p, "RBRACE") /\ ~curTokenIs(p, "EOF")
            THEN LET More(r) ==
                         IF Threw(r) THEN r ELSE parseBlockStmts(r.p, Append(x, r.node))
                 IN  More(parseStmt(p))
            ELSE LET Closed(c) == IF Threw(c) THEN c ELSE Parsed(c.p, BlockStmt(x))
                 IN  Closed(consume(p, "RBRACE"))
      [] fn = "parseBlockStmt" -> parseBlockStmts(nextToken(p), <<>>)
      [] fn = "Parse" ->
            \* the loop of Parse
            IF p.curTok.Type # "EOF"
            THEN LET More(r) ==
                         IF Threw(r) THEN r ELSE Parser("Parse", r.p, Append(x, r.node))
                 IN  More(parseStmt(p))
            ELSE Parsed(p, Program(x))

\* Parse that returns after the first statement
ParseFirstStmt(p) ==
    LET One(r) == IF Threw(r) THEN r ELSE Parsed(r.p, Program(<<r.node>>))
    IN  IF p.curTok.Type = "EOF" THEN Parsed(p, Program(<<>>)) ELSE One(parseStmt(p))

Parse(p) == Parser("Parse", p, <<>>)

NewParser(input) ==
    nextToken([l |-> NewLexer(input), curTok |-> TokenValue(NoPosition, "ILLEGAL", <<>>)])

(***************************************************************************)
(* The state machine: one process (the REPL, or any embedder) holding one  *)
(* root environment, frame 1, and applying the exported operations to it.  *)
(***************************************************************************)
VARIABLES
    heap,      \* the environment frames; frame 1 is the root environment
    result,    \* what the last operation returned: [val, err, panic]
    log,       \* the statements and calls the last operation evaluated
    op,        \* the last operation: "init", "Eval", "Call"
    line,      \* Eval: the index in Programs of the program evaluated
    callee,    \* Call: the value called
    args,      \* Call: its arguments
    ord,       \* the map iteration order of the last operation
    steps,     \* operations performed
    hist,      \* the Set operations applied directly to frames, in order
    got,       \* Get: the frame and name asked for, and what Get returned
    lexer,     \* the Lexer: [input, cursor, pos]
    tokens,    \* the tokens NextToken returned on this lexer, in order
    curTok,    \* the Parser's current token (its lexer is the variable lexer)
    parsed     \* what Parse returned: [program, err]

vars == <<heap, result, log, op, line, callee, args, ord, steps, hist, got, lexer, tokens,
          curTok, parsed>>

Root == 1

Init ==
    /\ heap = NewEnv(0, <<>>).heap
    /\ result = Ok(Null)
    /\ log = <<>>
    /\ op = "init"
    /\ line = 0
    /\ callee = Nil
    /\ args = <<>>
    /\ ord = 1
    /\ steps = 0
    /\ hist = <<>>
    /\ got = [e |-> 0, name |-> "", val |-> Nil, ok |-> FALSE]
    /\ lexer = NewLexer(<<>>)
    /\ tokens = <<>>
    /\ curTok = TokenValue(NoPosition, "ILLEGAL", <<>>)
    /\ parsed = [program |-> NoNode, err |-> NoError]

\* a panic ends the process; the bounds end the exploration
Running == result.panic = "" /\ steps < MaxLines /\ Len(heap) < MaxFrames

\* monkey.Eval(program, env) on the root environment
EvalLine(p, o) ==
    /\ Running
    /\ LET Done(r) ==
               /\ heap' = r.st.heap
               /\ log' = r.st.log
               /\ result' = [val |-> r.val, err |-> r.err, panic |-> r.panic]
       IN  Done(Eval(Programs[p], Root, [heap |-> heap, log |-> <<>>, ord |-> o]))
    /\ op' = "Eval"
    /\ line' = p
    /\ callee' = Nil
    /\ args' = <<>>
    /\ ord' = o
    /\ steps' = steps + 1
    /\ UNCHANGED <<hist, got, lexer, tokens, curTok, parsed>>

\* monkey.Call(value, args...) on a value bound in the root environment
CallValue(name, as) ==
    /\ Running
    /\ name \in DOMAIN heap[Root].store
    /\ LET Done(r) ==
               /\ heap' = r.st.heap
               /\ log' = r.st.log
               /\ result' = [val |-> r.val, err |-> r.err, panic |-> r.panic]
       IN  Done(Call(heap[Root].store[name], as,
                     [heap |-> heap, log |-> <<>>, ord |-> 1]))
    /\ op' = "Call"
    /\ line' = 0
    /\ callee' = heap[Root].store[name]
    /\ args' = as
    /\ ord' = 1
    /\ steps' = steps + 1
    /\ UNCHANGED <<hist, got, lexer, tokens, curTok, parsed>>

Names == {"add", "y", "f", "g", "h", "q", "k", "e", "r", "a", "c"}

Next ==
    \/ \E p \in 1..Len(Programs) : \E o \in Orders(p) : EvalLine(p, o)
    \/ \E name \in Names : \E as \in ArgLists : CallValue(name, as)

Spec == Init /\ [][Next]_vars

(***************************************************************************)
(* The environment alone: frames are allocated, set and read through the   *)
(* exported NewEnv, Env.Set and Env.Get.                                   *)
(***************************************************************************)
MaxEnvFrames == 3     \* frames allocated
MaxSets == 2          \* Set operations applied
EnvNames == {"x", "y"}

\* NewEnv(outer), outer being nil or a frame
NewEnvOp(outer) ==
    /\ Len(heap) < MaxEnvFrames
    /\ heap' = NewEnv(outer, heap).heap
    /\ op' = "NewEnv"
    /\ UNCHANGED <<result, log, line, callee, args, ord, steps, hist, got, lexer, tokens, curTok, parsed>>

\* e.Set(name, val)
SetOp(e, name, val) ==
    /\ Len(hist) < MaxSets
    /\ heap' = EnvSet(heap, e, name, val)
    /\ hist' = Append(hist, [e |-> e, name |-> name, val |-> val])
    /\ op' = "Set"
    /\ UNCHANGED <<result, log, line, callee, args, ord, steps, got, lexer, tokens, curTok, parsed>>

\* e.Get(name)
GetOp(e, name) ==
    /\ LET r == EnvGet(heap, e, name)
       IN  got' = [e |-> e, name |-> name, val |-> r.val, ok |-> r.ok]
    /\ op' = "Get"
    /\ UNCHANGED <<heap, result, log, line, callee, args, ord, steps, hist, lexer, tokens, curTok, parsed>>

EnvNext ==
    \/ \E outer \in 0..Len(heap) : NewEnvOp(outer)
    \* every Set writes a value no Set wrote before, so that the value Get
    \* returns tells which Set it comes from
    \/ \E e \in DOMAIN heap : \E name \in EnvNames :
            SetOp(e, name, IntVal(Len(hist) + 1))
    \/ \E e \in DOMAIN heap : \E name \in EnvNames : GetOp(e, name)

EnvSpec == Init /\ [][EnvNext]_vars

(***************************************************************************)
(* Properties.                                                             *)
(***************************************************************************)
IsStmt(e) == e.ev = "stmt"
IsTop(e) == e.ev = "stmt" /\ e.lvl = "program"
IsCall(e) == e.ev = "call"
StmtLog == SelectSeq(log, IsStmt)
Returned == result.err = "" /\ result.panic = ""
CalledFunction == op = "Call" /\ callee.kind = "function"

\* C1: a call of a user function whose body finishes without executing a
\* return statement yields the value of the last statement evaluated in the
\* body (stated for calls during which no return statement executes at all).
C1_CallYieldsLastStatementValue ==
    (/\ CalledFunction
     /\ Returned
     /\ Len(StmtLog) > 0
     /\ \A k \in DOMAIN StmtLog : StmtLog[k].stmt # "ReturnStmt")
    => result.val = StmtLog[Len(StmtLog)].val

\* C2: once a return statement executes inside the if/else blocks of a
\* function body, the call yields exactly that return's value and no later
\* statement of the body is evaluated (stated for calls that make no nested
\* call: every statement logged belongs to the body, and the statements
\* still completing after the return are the ones that enclose it, which
\* start before it).
C2_ReturnEndsTheCall ==
    (/\ CalledFunction
     /\ Returned
     /\ Cardinality({k \in DOMAIN log : IsCall(log[k])}) = 1)
    => \A k \in DOMAIN StmtLog :
          StmtLog[k].stmt = "ReturnStmt" =>
             /\ result.val = StmtLog[k].val.inner
             /\ \A j \in DOMAIN StmtLog : j > k => StmtLog[j].Pos < StmtLog[k].Pos

\* C3: the Value that Eval returns for a Program with a nil error is never a
\* ReturnSignal.
C3_NoReturnSignalEscapesEval ==
    (op = "Eval" /\ Returned) => result.val.kind # "returnValue"

\* the root environment binds f and g to the closures of Defs2
RootHasFG ==
    /\ {"f", "g"} \subseteq DOMAIN heap[Root].store
    /\ heap[Root].store["f"] = Function(<<>>, FnF(1).Body, Root)
    /\ heap[Root].store["g"] = Function(<<>>, FnG(3).Body, Root)
\* the last operation called g: `g()` evaluated, or g called directly
CalledG ==
    \/ op = "Eval" /\ Programs[line] = UseG /\ RootHasFG
    \/ op = "Call" /\ callee = Function(<<>>, FnG(3).Body, Root) /\ RootHasFG

\* C4: the body of a called function resolves its free identifiers in the
\* environment the function literal captured, never in the caller's: the
\* frame of every call has the callee's captured Env as its outer, and
\* g() (whose frame binds y to 1 before it calls f, which returns y) yields
\* the root's y, or "identifier not found" when the root binds no y.
C4_BodyResolvesInCapturedEnv ==
    /\ \A k \in DOMAIN log :
          IsCall(log[k]) => heap[log[k].frame].outer = log[k].fn.Env
    /\ CalledG =>
          IF "y" \in DOMAIN heap[Root].store
          THEN result = Ok(heap[Root].store["y"])
          ELSE result = Error(Nil, "identifier not found")

\* g() was evaluated with y bound in the root, and g's let y = 1 executed
C4_Witness ==
    /\ op = "Eval" /\ Programs[line] = UseG /\ RootHasFG
    /\ "y" \in DOMAIN heap[Root].store
    /\ result = Ok(IntVal(5))
    /\ \E k \in DOMAIN StmtLog : StmtLog[k].stmt = "LetStmt" /\ StmtLog[k].name = "y"

\* C6: a call of a user function leaves every frame that existed before the
\* call with exactly the bindings (and the outer) it had.
C6_CallPreservesFrames ==
    [][(op' = "Call" /\ callee'.kind = "function")
        => \A e \in DOMAIN heap : heap'[e] = heap[e]]_vars

\* a call returned whose body executed a let of a name that the root binds
C6_Witness ==
    /\ CalledFunction
    /\ Returned
    /\ \E k \in DOMAIN StmtLog :
          /\ StmtLog[k].stmt = "LetStmt"
          /\ StmtLog[k].name \in DOMAIN heap[Root].store

\* the index in lg of its n-th program-level statement (0 when n = 0)
TopIndex(lg, n) ==
    IF n = 0 THEN 0
    ELSE CHOOSE j \in DOMAIN lg :
            IsTop(lg[j]) /\ Cardinality({i \in 1..j : IsTop(lg[i])}) = n

\* C7: Eval of a Program evaluates its statements in source order and stops
\* at the first one that produces an error: the error is returned with no
\* value, no later statement is evaluated, and the bindings the earlier
\* statements made remain (a name keeps the value the earlier statements
\* gave it unless a block of the failing statement re-bound it).
C7_ProgramStopsAtFirstError ==
    [][op' = "Eval" =>
        LET stmts == Programs[line'].Stmts
            top == SelectSeq(log', IsTop)
            n == Len(top)
        IN  /\ n <= Len(stmts)
            /\ \A k \in 1..n : top[k].Pos = stmts[k].Pos
            /\ \A k \in 1..(n - 1) : top[k].err = ""
            /\ result'.err # "" =>
                /\ result'.val = Nil
                /\ n >= 1
                /\ top[n].err = result'.err
                /\ LET before == Eval(Program(SubSeq(stmts, 1, n - 1)), Root,
                                      [heap |-> heap, log |-> <<>>, ord |-> ord'])
                       pre == before.st.heap[Root].store
                       from == TopIndex(log', n - 1)
                       rebound == {log'[j].name : j \in {i \in DOMAIN log' :
                                        i > from /\ IsStmt(log'[i])}}
                   IN  \A nm \in DOMAIN pre :
                          /\ nm \in DOMAIN heap'[Root].store
                          /\ nm \notin rebound => heap'[Root].store[nm] = pre[nm]
      ]_vars

\* a program failed at a statement that is neither its first nor its last,
\* after a let whose binding is in the root
C7_Witness ==
    /\ op = "Eval"
    /\ result.err # ""
    /\ LET top == SelectSeq(log, IsTop)
       IN  /\ Len(top) >= 2
           /\ Len(top) < Len(Programs[line].Stmts)
           /\ top[1].stmt = "LetStmt"
           /\ top[1].name \in DOMAIN heap[Root].store

QuoNumerators == {0, 1, -1}

\* C8: evaluating x / 0 makes Eval return a non-nil error, not a value and
\* not an abnormal abort.
C8_DivisionByZeroIsAnError ==
    (op = "Eval" /\ \E x \in QuoNumerators : Programs[line] = Quo(x, 0))
    => (result.err # "" /\ result.panic = "")

\* C9: a call of a user function with a number of arguments different from
\* its number of parameters returns an error and does not evaluate the body.
C9_ArityMismatchIsAnError ==
    \A k \in DOMAIN log :
        (IsCall(log[k]) /\ log[k].nargs # Len(log[k].fn.Params))
        => /\ result.err # ""
           /\ result.panic = ""
           /\ \A j \in DOMAIN log : j > k => ~IsStmt(log[j]) \/ IsTop(log[j])

DupKeys == <<IntegerLiteral(1), Boolean(TRUE), StringLiteral(<<107>>)>>

\* C10: a map literal with two entries of equal keys yields a Map whose
\* entry holds the later value: {k: "a", k: "b"}[k] is "b" on every
\* evaluation.
C10_MapLiteralLastWriteWins ==
    (op = "Eval" /\ \E i \in DOMAIN DupKeys : Programs[line] = MapProbe(DupKeys[i], DupKeys[i]))
    => result = Ok(String(<<98>>))

RECURSIVE Chain(_, _)
\* the frames from e outward, e first
Chain(hp, e) == IF e = 0 THEN <<>> ELSE <<e>> \o Chain(hp, hp[e].outer)

\* the Set operations applied to frame e for name
SetsOf(e, name) == {h \in DOMAIN hist : hist[h].e = e /\ hist[h].name = name}
Least(S) == CHOOSE m \in S : \A n \in S : m <= n
Greatest(S) == CHOOSE m \in S : \A n \in S : m >= n

\* C5: after any sequence of Set operations, Get(name) on a frame returns the
\* value most recently Set for name in the nearest frame (the frame itself,
\* then its outer frames in order) that binds name, and reports not-found
\* exactly when no frame of the chain binds it.
C5_GetReturnsNearestLatestSet ==
    op = "Get" =>
        LET chain == Chain(heap, got.e)
            binders == {i \in DOMAIN chain : SetsOf(chain[i], got.name) # {}}
        IN  IF binders = {} THEN ~got.ok
            ELSE /\ got.ok
                 /\ got.val = hist[Greatest(SetsOf(chain[Least(binders)], got.name))].val

\* Get found, in an outer frame, a name that was Set there twice with
\* different values
C5_Witness ==
    /\ op = "Get"
    /\ got.ok
    /\ got.name \notin DOMAIN heap[got.e].store
    /\ \E h1, h2 \in DOMAIN hist :
          /\ h1 < h2
          /\ hist[h1].e = hist[h2].e
          /\ hist[h1].name = got.name /\ hist[h2].name = got.name
          /\ hist[h1].val # hist[h2].val
          /\ got.val = hist[h2].val

(***************************************************************************)
(* Expressions over values of every type: Eval applied, on the root        *)
(* environment, to one operator and operands whose values cover the types  *)
(* of the language.  args keeps the operands' values.                      *)
(***************************************************************************)
\* if (false) { 1 }: the expression whose value is Null
NullExpr ==
    IfExpr(Boolean(FALSE), BlockStmt(<<ExprStmt(1, IntegerLiteral(1))>>), NoBlock)

\* "" and "ab"; "éa" (bytes c3 a9 61: two characters, three bytes)
StrEmpty == StringLiteral(<<>>)
StrAB == StringLiteral(<<97, 98>>)
StrEA == StringLiteral(<<195, 169, 97>>)

\* the operands: null, ints, bools, strings, arrays, maps, a function, a builtin
Operands ==
    << NullExpr,
       IntegerLiteral(0), IntegerLiteral(1), IntegerLiteral(2), Lit(-1), Lit(-3),
       Boolean(TRUE), Boolean(FALSE),
       StrEmpty, StrAB, StrEA,
       ArrayLiteral(<<>>), ArrayLiteral(<<IntegerLiteral(10), StrAB>>),
       MapLiteral(<<>>),
       MapLiteral(<< <<Boolean(FALSE), StrAB>> >>),
       MapLiteral(<< <<IntegerLiteral(1), IntegerLiteral(10)>>,
                     <<StrAB, IntegerLiteral(20)>> >>),
       FnE, Identifier("len") >>

\* the value of an operand
ValueOf(e) == Eval(e, Root, [heap |-> heap, log |-> <<>>, ord |-> 1]).val

\* Eval(expr) with operands xs, in a process that has evaluated nothing yet;
\* tok names the operator
EvalExpr(tok, expr, xs) ==
    /\ op = "init"
    /\ LET Done(r) ==
               /\ heap' = r.st.heap
               /\ result' = [val |-> r.val, err |-> r.err, panic |-> r.panic]
       IN  Done(Eval(expr, Root, [heap |-> heap, log |-> <<>>, ord |-> 1]))
    /\ op' = tok
    /\ args' = [k \in DOMAIN xs |-> ValueOf(xs[k])]
    /\ UNCHANGED <<log, line, callee, ord, steps, hist, got, lexer, tokens, curTok, parsed>>

\* left[index]
IndexOp(left, index) == EvalExpr("[", IndexExpr(left, index), <<left, index>>)
\* { key: 1 }
MapKeyOp(key) ==
    EvalExpr("{", MapLiteral(<< <<key, IntegerLiteral(1)>> >>), <<key>>)
\* !x
NotOp(x) == EvalExpr("!", PrefixExpr("!", x), <<x>>)
\* if (cond) { 1 } else { 2 }
IfOp(cond) ==
    EvalExpr("if", IfExpr(cond, BlockStmt(<<ExprStmt(1, IntegerLiteral(1))>>),
                                BlockStmt(<<ExprStmt(2, IntegerLiteral(2))>>)),
             <<cond>>)
\* x cmp y
CompareOp(cmp, x, y) == EvalExpr(cmp, InfixExpr(cmp, x, y), <<x, y>>)

ExprNext ==
    \/ \E i, j \in DOMAIN Operands : IndexOp(Operands[i], Operands[j])
    \/ \E i \in DOMAIN Operands : MapKeyOp(Operands[i])
    \/ \E i \in DOMAIN Operands : NotOp(Operands[i])
    \/ \E i \in DOMAIN Operands : IfOp(Operands[i])
    \/ \E cmp \in CmpOps : \E i, j \in DOMAIN Operands :
            CompareOp(cmp, Operands[i], Operands[j])

ExprSpec == Init /\ [][ExprNext]_vars

(***************************************************************************)
(* Properties of expressions.                                              *)
(***************************************************************************)
IndexedMap == op = "[" /\ args[1].kind = "map"
IndexedSeq == op = "[" /\ args[1].kind \in {"array", "string"} /\ args[2].kind = "int"
Hashable(v) == v.kind \in {"null", "int", "bool", "string"}
Unhashable(v) == v.kind \in {"array", "map", "function", "builtin_function"}

\* C11: indexing a Map with a hashable key k yields Null whenever no entry
\* of the map has a key equal to k.
C11_MissingKeyYieldsNull ==
    (/\ IndexedMap
     /\ Hashable(args[2])
     /\ \A h \in DOMAIN args[1].entries : args[1].entries[h].Key # args[2])
    => result = Ok(Null)

\* C12: an Array, Map, Function or Builtin used as the key of a map-literal
\* entry or as the index applied to a Map makes Eval return the error
\* "unhashable type: <type>" naming the key's type.
C12_UnhashableKeyIsAnError ==
    /\ (IndexedMap /\ Unhashable(args[2]))
          => result = Error(Nil, "unhashable type: " \o args[2].kind)
    /\ (op = "{" /\ Unhashable(args[1]))
          => result = Error(Nil, "unhashable type: " \o args[1].kind)

\* C13: indexing an Array or String of length n with an Int outside
\* -n <= i < n makes Eval return an error, not a value and not an abort.
C13_IndexOutOfRangeIsAnError ==
    (/\ IndexedSeq
     /\ \/ args[2].i < -ValueLen(args[1])
        \/ args[2].i >= ValueLen(args[1]))
    => (result.err # "" /\ result.panic = "")

RECURSIVE Characters(_)
\* the characters of a UTF-8 string, each as its bytes: a character is a
\* byte that is no continuation byte, with the continuation bytes after it
Characters(bytes) ==
    IF bytes = <<>> THEN <<>>
    ELSE LET Cont(k) == k <= Len(bytes) /\ bytes[k] >= 128 /\ bytes[k] < 192
             RECURSIVE End(_)
             End(k) == IF Cont(k + 1) THEN End(k + 1) ELSE k
             e == End(1)
         IN  <<SubSeq(bytes, 1, e)>> \o Characters(SubSeq(bytes, e + 1, Len(bytes)))

\* the element of an Array, or the one-character String of a String, at the
\* 0-based position pos
ElementAt(v, pos) ==
    IF v.kind = "array" THEN v.items[pos + 1]
    ELSE String(Characters(v.bytes)[pos + 1])

\* C14: for an Array or String v whose len is n and an Int i with
\* -n <= i < n, v[i] is the element (the one-character string) at position
\* i when i >= 0 and at position n + i when i < 0.
C14_IndexYieldsElementAtPosition ==
    (/\ IndexedSeq
     /\ args[2].i >= -ValueLen(args[1])
     /\ args[2].i < ValueLen(args[1]))
    => result = Ok(ElementAt(args[1],
                     IF args[2].i >= 0 THEN args[2].i
                     ELSE ValueLen(args[1]) + args[2].i))

\* the truthiness table of the claim
Truthy(v) == v \notin {Null, False, IntVal(0), String(<<>>)}

\* C15: truthiness is false exactly for Null, false, 0 and "", and true
\* for every other value; !x yields Bool(not truthiness(x)) and if takes
\* its consequence exactly when the condition is truthy.
C15_TruthinessTable ==
    /\ op = "!" => result = Ok(Bool(~Truthy(args[1])))
    /\ op = "if" => result = Ok(IntVal(IF Truthy(args[1]) THEN 1 ELSE 2))

\* an empty array as the condition of an if took the consequence
C15_Witness == op = "if" /\ args[1] = Array(<<>>) /\ result = Ok(IntVal(1))

BothOf(kind) == args[1].kind = kind /\ args[2].kind = kind

\* C16: for each comparison operator, comparing operands of different types
\* is an error, and a Bool is returned only when both operands are Int or
\* both are Bool: two operands of any other same type are an error too.
C16_CompareIsSameTypeIntOrBool ==
    op \in CmpOps =>
        /\ result.panic = ""
        /\ (BothOf("int") \/ BothOf("bool"))
              => (result.err = "" /\ result.val.kind = "bool")
        /\ ~(BothOf("int") \/ BothOf("bool")) => result.err # ""

\* two equal strings were compared, and the comparison was an error
C16_Witness ==
    /\ op = "=="
    /\ args = <<String(<<97, 98>>), String(<<97, 98>>)>>
    /\ result.err # ""

(***************************************************************************)
(* Int at its full width.  An int64 is its two's complement word: four     *)
(* 16-bit limbs, the least significant first, so that the arithmetic of    *)
(* value.go can be followed where it leaves the 64-bit range.              *)
(***************************************************************************)
Zero64 == <<0, 0, 0, 0>>
One64 == <<1, 0, 0, 0>>
MinInt64 == <<0, 0, 0, 32768>>                  \* -2^63
MaxInt64 == <<65535, 65535, 65535, 32767>>      \* 2^63 - 1

RECURSIVE AddFrom(_, _, _, _)
\* the limbs k.. of a + b + carry, without the carry out of the last limb
AddFrom(a, b, k, carry) ==
    IF k > Len(a) THEN <<>>
    ELSE <<(a[k] + b[k] + carry) % W16>>
            \o AddFrom(a, b, k + 1, (a[k] + b[k] + carry) \div W16)

Add64(a, b) == AddFrom(a, b, 1, 0)                       \* a + b, wrapping
Not64(a) == [k \in DOMAIN a |-> W16 - 1 - a[k]]
Neg64(a) == Add64(Not64(a), One64)                       \* -a, wrapping
Sub64(a, b) == Add64(a, Neg64(b))                        \* a - b, wrapping
IsNeg64(a) == a[4] >= 32768
\* |a| as an unsigned word (2^63 for the most negative value)
Abs64(a) == IF IsNeg64(a) THEN Neg64(a) ELSE a
\* the word of an integer n of the checker, -2^31 < n < 2^31
I64(n) ==
    IF n >= 0 THEN <<n % W16, n \div W16, 0, 0>>
    ELSE Neg64(<<(-n) % W16, (-n) \div W16, 0, 0>>)

RECURSIVE ULessFrom(_, _, _)
ULessFrom(a, b, k) ==
    IF k = 0 THEN FALSE
    ELSE IF a[k] # b[k] THEN a[k] < b[k]
    ELSE ULessFrom(a, b, k - 1)
\* a < b, both unsigned
ULess(a, b) == ULessFrom(a, b, Len(a))
\* a < b, both signed
Less64(a, b) ==
    IF IsNeg64(a) # IsNeg64(b) THEN IsNeg64(a) ELSE ULess(a, b)

\* the 8 limbs of the product of two unsigned words
MulWide(a, b) ==
    LET RECURSIVE Part(_, _, _)
        \* the sum over i + j = k of the low (hi = 0) or high (hi = 1) halves
        \* of a[i] * b[j], from i on (limbs counted from 0)
        Part(k, i, hi) ==
            IF i > 3 THEN 0
            ELSE (IF k - i >= 0 /\ k - i <= 3
                  THEN (IF hi = 1 THEN MulHi16(a[i + 1], b[k - i + 1])
                        ELSE MulLo16(a[i + 1], b[k - i + 1]))
                  ELSE 0) + Part(k, i + 1, hi)
        RECURSIVE Col(_, _)
        Col(k, carry) ==
            IF k > 7 THEN <<>>
            ELSE LET t == Part(k, 0, 0) + Part(k - 1, 0, 1) + carry
                 IN  <<t % W16>> \o Col(k + 1, t \div W16)
    IN  Col(0, 0)

\* a * b with the product cut to 32 bits and sign-extended, as if Int were
\* an int32
Mul64As32(a, b) ==
    LET m == MulWide(a, b)
    IN  IF m[2] >= 32768 THEN <<m[1], m[2], W16 - 1, W16 - 1>>
        ELSE <<m[1], m[2], 0, 0>>

\* a * b, wrapping
Mul64(a, b) == SubSeq(MulWide(a, b), 1, 4)

\* 2 * a, wrapping
Shl64(a) ==
    [k \in DOMAIN a |->
        (2 * a[k] + (IF k > 1 /\ a[k - 1] >= 32768 THEN 1 ELSE 0)) % W16]

RECURSIVE Pow2(_)
Pow2(k) == IF k = 0 THEN 1 ELSE 2 * Pow2(k - 1)
\* bit k of a (0 the least significant)
Bit64(a, k) == (a[(k \div 16) + 1] \div Pow2(k % 16)) % 2

\* the quotient of unsigned n by unsigned d # 0: long division bit by bit,
\* qr being the quotient and the remainder so far
UQuo64(n, d) ==
    LET Step[k \in -1..63, qr \in Seq(Seq(Nat))] ==
            IF k < 0 THEN qr[1]
            ELSE LET r1 == [Shl64(qr[2]) EXCEPT ![1] = @ + Bit64(n, k)]
                 IN  IF ULess(r1, d) THEN Step[k - 1, <<Shl64(qr[1]), r1>>]
                     ELSE Step[k - 1, <<[Shl64(qr[1]) EXCEPT ![1] = @ + 1],
                                        Sub64(r1, d)>>]
    IN  Step[63, <<Zero64, Zero64>>]

\* Go's a / b for b # 0: truncated toward zero; -2^63 / -1 wraps to -2^63
Quo64(a, b) ==
    IF IsNeg64(a) # IsNeg64(b) THEN Neg64(UQuo64(Abs64(a), Abs64(b)))
    ELSE UQuo64(Abs64(a), Abs64(b))

\* Int(w) for a word w
IntWord(w) == [kind |-> "int", word |-> w]

\* Int.Binary on words
Int64Binary(i, tok, y) ==
    IF y.kind # "int" THEN Ok(Nil)
    ELSE CASE tok = "+" -> Ok(IntWord(Add64(i.word, y.word)))
           [] tok = "-" -> Ok(IntWord(Sub64(i.word, y.word)))
           [] tok = "*" -> Ok(IntWord(Mul64(i.word, y.word)))
           [] tok = "/" -> IF y.word = Zero64 THEN Panic("integer divide by zero")
                          ELSE Ok(IntWord(Quo64(i.word, y.word)))
           [] OTHER -> Ok(Nil)

\* Int.Cmp on words
Int64Cmp(i, y) ==
    IF y.kind # "int" THEN [cmp |-> 0, err |-> "invalid cmp operator"]
    ELSE [cmp |-> IF Less64(y.word, i.word) THEN 1
                  ELSE IF Less64(i.word, y.word) THEN -1 ELSE 0,
          err |-> ""]

\* (x * y) / y == x as Eval evaluates it: Binary, Binary, Compare
MulDivEq(x, y) ==
    LET Compared(q) ==
            IF Failed(q) THEN q
            ELSE Ok(Bool(threeway("==", Int64Cmp(q.val, x).cmp)))
        Divided(p) == Compared(Int64Binary(p.val, "/", y))
    IN  Divided(Int64Binary(x, "*", y))

\* the integers tried: small ones, and those around 2^31, 2^32, the square
\* root of 2^63 (3037000499 and 3037000500), 2^62 and the ends of the range
Ints64 ==
    << Zero64, One64, I64(-1), I64(2), I64(-2), I64(3), I64(7), I64(-7),
       <<0, 1, 0, 0>>, <<0, 32768, 0, 0>>, <<0, 0, 1, 0>>,
       <<62259, 46340, 0, 0>>, <<62260, 46340, 0, 0>>,
       <<0, 0, 0, 16384>>, MaxInt64, MinInt64 >>

\* one expression (x * y) / y == x evaluated by a fresh process
MulDivOp(x, y) ==
    /\ op = "init"
    /\ result' = MulDivEq(x, y)
    /\ op' = "muldiv"
    /\ args' = <<x, y>>
    /\ UNCHANGED <<heap, log, line, callee, ord, steps, hist, got, lexer, tokens, curTok, parsed>>

ArithNext ==
    \E i, j \in DOMAIN Ints64 : MulDivOp(IntWord(Ints64[i]), IntWord(Ints64[j]))

ArithSpec == Init /\ [][ArithNext]_vars

\* C17: for all Int x and all Int y other than 0, (x * y) / y == x
\* evaluates to true.
C17_MulThenDivRestores ==
    (op = "muldiv" /\ args[2].word # Zero64) => result = Ok(True)

\* the product of x and y as integers lies in the 64-bit signed range
ProductFits(x, y) ==
    LET m == MulWide(Abs64(x), Abs64(y))
    IN  /\ SubSeq(m, 5, 8) = Zero64
        /\ \/ m[4] < 32768
           \/ IsNeg64(x) # IsNeg64(y) /\ SubSeq(m, 1, 4) = MinInt64

\* C17, amended: for all Int x and all Int y other than 0 whose product
\* x * y lies in the 64-bit signed range, (x * y) / y == x evaluates to
\* true.
C17_MulThenDivRestoresInRange ==
    (/\ op = "muldiv"
     /\ args[2].word # Zero64
     /\ ProductFits(args[1].word, args[2].word))
    => result = Ok(True)

\* 3037000499 * 3037000499, the largest square in the range, was divided
\* back
C17_Witness ==
    /\ op = "muldiv"
    /\ args[1].word = <<62259, 46340, 0, 0>>
    /\ args[2].word = <<62259, 46340, 0, 0>>
    /\ result = Ok(True)

(***************************************************************************)
(* LexSpec: a lexer is made for an input and NextToken is called on it     *)
(* again and again.                                                        *)
(***************************************************************************)
MaxInput == 3      \* bytes of input
MaxCalls == 5      \* calls of NextToken on one lexer

\* + - * / = ! < a 1, space, newline, the quote, the NUL byte, and the two
\* bytes of an e with acute accent (each of which alone is invalid UTF-8)
Alphabet == {43, 45, 42, 47, 61, 33, 60, 97, 49, 32, 10, 34, 0, 195, 169}
Inputs == UNION {[1..n -> Alphabet] : n \in 0..MaxInput}

NewLexerOp(input) ==
    /\ op = "init"
    /\ lexer' = NewLexer(input)
    /\ tokens' = <<>>
    /\ op' = "NewLexer"
    /\ UNCHANGED <<heap, result, log, line, callee, args, ord, steps, hist, got, curTok, parsed>>

NextTokenOp ==
    /\ op \in {"NewLexer", "NextToken"}
    /\ Len(tokens) < MaxCalls
    /\ LET Done(r) == /\ lexer' = r.l
                      /\ tokens' = Append(tokens, r.tok)
       IN  Done(NextToken(lexer))
    /\ op' = "NextToken"
    /\ UNCHANGED <<heap, result, log, line, callee, args, ord, steps, hist, got, curTok, parsed>>

LexNext ==
    \/ /\ op = "init"
       /\ \E input \in Inputs : NewLexerOp(input)
    \/ NextTokenOp

LexSpec == Init /\ [][LexNext]_vars

LastToken == tokens[Len(tokens)]

\* C18: a call of NextToken that follows one which returned EOF returns an
\* EOF token with an empty literal at the same position and leaves the
\* lexer (cursor, line and column) as it was; so does every later call.
C18_EOFIsIdempotent ==
    [][(/\ tokens # <<>>
        /\ LastToken.Type = "EOF"
        /\ Len(tokens') = Len(tokens) + 1)
       => (/\ lexer' = lexer
           /\ LastToken' = TokenValue(LastToken.pos, "EOF", <<>>))]_vars

\* "+" and a newline were lexed: PLUS, then EOF at 2:1 twice
C18_Witness ==
    /\ lexer.input = <<43, 10>>
    /\ Len(tokens) = 3
    /\ tokens[1].Type = "PLUS"
    /\ tokens[2] = TokenValue(MakePosition(2, 1), "EOF", <<>>)
    /\ tokens[3] = tokens[2]
    /\ lexer.cursor = 2

\* the operator tokens of + - * /
OperatorOf(c) ==
    CASE c = 43 -> "PLUS" [] c = 45 -> "MINUS" [] c = 42 -> "STAR" [] c = 47 -> "SLASH"

\* C19: a token of type PLUS, MINUS, STAR or SLASH has the one character
\* + - * / as its literal and consumed one rune: the lexer stands one
\* column after the token's position, and an = there starts the next
\* token, ASSIGN or EQ.
C19_ArithmeticOperatorsAreOneRune ==
    /\ \A i \in DOMAIN tokens :
          tokens[i].Type \in {"PLUS", "MINUS", "STAR", "SLASH"}
          => \E c \in {43, 45, 42, 47} :
                /\ tokens[i].Type = OperatorOf(c)
                /\ tokens[i].Literal = <<c>>
    /\ (tokens # <<>> /\ LastToken.Type \in {"PLUS", "MINUS", "STAR", "SLASH"})
       => /\ lexer.pos = MakePosition(LastToken.pos.Line, LastToken.pos.Col + 1)
          /\ lexer.cursor >= 1
          /\ lexer.input[lexer.cursor] \in {43, 45, 42, 47}
          /\ peekChar(lexer) = 61
             => NextToken(lexer).tok.Type \in {"ASSIGN", "EQ"}

(***************************************************************************)
(* ParseSpec: a parser is made for a source text and Parse is called on    *)
(* it.  The texts are lexemes separated by single spaces.                  *)
(***************************************************************************)
MaxLexemes == 3    \* lexemes of a text of the free family

RECURSIVE Source(_)
Source(lexemes) ==
    IF lexemes = <<>> THEN <<>>
    ELSE IF Len(lexemes) = 1 THEN lexemes[1]
    ELSE lexemes[1] \o <<32>> \o Source(Tail(lexemes))

\* the binary operators + - * / == != < > and the prefix operators - + !
BinaryOperators == {<<43>>, <<45>>, <<42>>, <<47>>, <<61, 61>>, <<33, 61>>, <<60>>, <<62>>}
PrefixOperators == {<<45>>, <<43>>, <<33>>}

\* a, b, c
VarA == <<97>>
VarB == <<98>>
VarC == <<99>>

\* a lo b hi c;  pre a op b;  a op b ( c ), a op b [ c ];  pre a ( b ),
\* pre a [ b ]
LadderTexts ==
    {<<VarA, o1, VarB, o2, VarC>> : o1 \in BinaryOperators, o2 \in BinaryOperators}
    \cup {<<pre, VarA, o, VarB>> : pre \in PrefixOperators, o \in BinaryOperators}
    \cup {<<VarA, o, VarB, <<40>>, VarC, <<41>> >> : o \in BinaryOperators}
    \cup {<<VarA, o, VarB, <<91>>, VarC, <<93>> >> : o \in BinaryOperators}
    \cup {<<pre, VarA, <<40>>, VarB, <<41>> >> : pre \in PrefixOperators}
    \cup {<<pre, VarA, <<91>>, VarB, <<93>> >> : pre \in PrefixOperators}

\* a 1 - * == ( ) ;
FreeLexemes == {VarA, <<49>>, <<45>>, <<42>>, <<61, 61>>, <<40>>, <<41>>, <<59>>}
FreeTexts == UNION {[1..n -> FreeLexemes] : n \in 0..MaxLexemes}

Texts == LadderTexts \cup FreeTexts

NewParserOp(input) ==
    /\ op = "init"
    /\ LET Made(p) == /\ lexer' = p.l
                      /\ curTok' = p.curTok
       IN  Made(NewParser(input))
    /\ op' = "NewParser"
    /\ UNCHANGED <<heap, result, log, line, callee, args, ord, steps, hist, got, tokens, parsed>>

ParseOp ==
    /\ op = "NewParser"
    /\ LET Done(r) == /\ lexer' = r.p.l
                      /\ curTok' = r.p.curTok
                      /\ parsed' = [program |-> r.node, err |-> r.err]
       IN  Done(Parse([l |-> lexer, curTok |-> curTok]))
    /\ op' = "Parse"
    /\ UNCHANGED <<heap, result, log, line, callee, args, ord, steps, hist, got, tokens>>

ParseNext ==
    \/ /\ op = "init"
       /\ \E text \in Texts : NewParserOp(Source(text))
    \/ ParseOp

ParseSpec == Init /\ [][ParseNext]_vars

\* the ladder as the specification gives it, for the binary operators
Rung(o) ==
    CASE o \in {<<61, 61>>, <<33, 61>>} -> 1
      [] o \in {<<60>>, <<62>>} -> 2
      [] o \in {<<43>>, <<45>>} -> 3
      [] o \in {<<42>>, <<47>>} -> 4

\* the operator a lexeme stands for
Operator(o) ==
    CASE o = <<43>> -> "+" [] o = <<45>> -> "-" [] o = <<42>> -> "*" [] o = <<47>> -> "/"
      [] o = <<61, 61>> -> "==" [] o = <<33, 61>> -> "!=" [] o = <<60>> -> "<"
      [] o = <<62>> -> ">" [] o = <<33>> -> "!"

\* Parse returned the program of the one expression statement e
ParsedAs(e) == parsed = [program |-> Program(<<ExprStmt(0, e)>>), err |-> NoError]

\* C20: a lo b hi c parses as (a lo (b hi c)) when lo stands lower on the
\* ladder than hi and as ((a lo b) hi c) when it stands higher or on the
\* same rung (left associativity); a prefix operator binds tighter than
\* every binary operator; a call and an index bind tighter than a binary
\* and than a prefix operator.
C20_PrecedenceLadder ==
    op = "Parse" =>
        /\ \A o1, o2 \in BinaryOperators :
              lexer.input = Source(<<VarA, o1, VarB, o2, VarC>>)
              => IF Rung(o1) < Rung(o2)
                 THEN ParsedAs(InfixExpr(Operator(o1), Identifier(VarA),
                          InfixExpr(Operator(o2), Identifier(VarB), Identifier(VarC))))
                 ELSE ParsedAs(InfixExpr(Operator(o2),
                          InfixExpr(Operator(o1), Identifier(VarA), Identifier(VarB)),
                          Identifier(VarC)))
        /\ \A pre \in PrefixOperators, o \in BinaryOperators :
              lexer.input = Source(<<pre, VarA, o, VarB>>)
              => ParsedAs(InfixExpr(Operator(o),
                     PrefixExpr(Operator(pre), Identifier(VarA)), Identifier(VarB)))
        /\ \A o \in BinaryOperators :
              /\ lexer.input = Source(<<VarA, o, VarB, <<40>>, VarC, <<41>> >>)
                 => ParsedAs(InfixExpr(Operator(o), Identifier(VarA),
                        CallExpr(Identifier(VarB), <<Identifier(VarC)>>)))
              /\ lexer.input = Source(<<VarA, o, VarB, <<91>>, VarC, <<93>> >>)
                 => ParsedAs(InfixExpr(Operator(o), Identifier(VarA),
                        IndexExpr(Identifier(VarB), Identifier(VarC))))
        /\ \A pre \in PrefixOperators :
              /\ lexer.input = Source(<<pre, VarA, <<40>>, VarB, <<41>> >>)
                 => ParsedAs(PrefixExpr(Operator(pre),
                        CallExpr(Identifier(VarA), <<Identifier(VarB)>>)))
              /\ lexer.input = Source(<<pre, VarA, <<91>>, VarB, <<93>> >>)
                 => ParsedAs(PrefixExpr(Operator(pre),
                        IndexExpr(Identifier(VarA), Identifier(VarB))))

\* a + b * c was parsed as (a + (b * c))
C20_Witness ==
    /\ op = "Parse"
    /\ lexer.input = Source(<<VarA, <<43>>, VarB, <<42>>, VarC>>)
    /\ ParsedAs(InfixExpr("+", Identifier(VarA),
           InfixExpr("*", Identifier(VarB), Identifier(VarC))))

\* C21: every error Parse returns carries the position of the offending
\* token: a position of the source, line 1 or later and column 1 or later,
\* which lies within the text.
C21_ParseErrorsCarryPosition ==
    (op = "Parse" /\ parsed.err # NoError)
    => /\ parsed.err.pos.Line >= 1
       /\ parsed.err.pos.Col >= 1
       /\ parsed.err.pos.Col <= Len(lexer.input) + 1

(***************************************************************************)
(* MapSpec: a map literal is parsed and a consumer ranges over the Pairs   *)
(* of the node (MapLiteral.String, evalMapLiteral), in an order Go leaves  *)
(* open.                                                                   *)
(***************************************************************************)
MaxEntries == 2     \* entries of a map literal

\* the keys a b 1 and the values 1 2 of the literals
MapKeys == {VarA, VarB, <<49>>}
MapValues == {<<49>>, <<50>>}
EntryLists == UNION {[1..n -> MapKeys \X MapValues] : n \in 0..MaxEntries}

\* k : v , of every entry
RECURSIVE EntryLexemes(_)
EntryLexemes(es) ==
    IF es = <<>> THEN <<>>
    ELSE <<es[1][1], <<58>>, es[1][2], <<44>> >> \o EntryLexemes(Tail(es))

\* { k : v , k : v }, without a comma after the last entry
MapText(es) ==
    LET inner == EntryLexemes(es)
    IN  <<<<123>>>> \o SubSeq(inner, 1, Len(inner) - 1) \o <<<<125>>>>

\* for k, v := range m.Pairs, in the order `order`: the pairs as the body
\* of the loop receives them
RangePairs(pairs, order) == [k \in 1..Len(pairs) |-> pairs[order[k]]]

RangePairsOp(o) ==
    /\ op = "Parse"
    /\ parsed.err = NoError
    /\ Len(parsed.program.Stmts) = 1
    /\ parsed.program.Stmts[1].node = "ExprStmt"
    /\ parsed.program.Stmts[1].Expr.node = "MapLiteral"
    /\ LET Ranged(pairs) == hist' = RangePairs(pairs, PairOrder(Len(pairs), o))
       IN  Ranged(parsed.program.Stmts[1].Expr.Pairs)
    /\ ord' = o
    /\ op' = "range"
    /\ UNCHANGED <<heap, result, log, line, callee, args, steps, got, lexer, tokens, curTok, parsed>>

MapNext ==
    \/ /\ op = "init"
       /\ \E es \in EntryLists : NewParserOp(Source(MapText(es)))
    \/ ParseOp
    \/ \E o \in 1..MaxOrd : RangePairsOp(o)

MapSpec == Init /\ [][MapNext]_vars

\* the node of a key or value lexeme
LexemeNode(x) ==
    IF x = <<49>> THEN IntegerLiteral(1)
    ELSE IF x = <<50>> THEN IntegerLiteral(2)
    ELSE Identifier(x)

\* C22: the MapLiteral node holds one pair per source entry, also when two
\* entries have the same key text, and a consumer that ranges over the
\* pairs receives them in source order.
C22_MapLiteralKeepsEntriesInOrder ==
    \A es \in EntryLists :
        lexer.input = Source(MapText(es))
        => /\ op \in {"Parse", "range"}
              => /\ parsed.err = NoError
                 /\ Len(parsed.program.Stmts[1].Expr.Pairs) = Len(es)
           /\ op = "range"
              => hist = [i \in 1..Len(es) |->
                            <<LexemeNode(es[i][1]), LexemeNode(es[i][2])>>]

(***************************************************************************)
(* FnSpec: a function literal with an empty body is parsed; what stands    *)
(* between its parentheses is any list of lexemes.                         *)
(***************************************************************************)
MaxParamLexemes == 3    \* lexemes between the parentheses

\* a b 1 + ,
ParamLexemes == {VarA, VarB, <<49>>, <<43>>, <<44>>}
ParamLists == UNION {[1..n -> ParamLexemes] : n \in 0..MaxParamLexemes}

\* fn ( ... ) { }
FnText(ps) == <<<<102, 110>>, <<40>> >> \o ps \o << <<41>>, <<123>>, <<125>> >>

FnNext ==
    \/ /\ op = "init"
       /\ \E ps \in ParamLists : NewParserOp(Source(FnText(ps)))
    \/ ParseOp

FnSpec == Init /\ [][FnNext]_vars

\* identifiers separated by commas, or nothing
IsIdentList(ps) ==
    \/ ps = <<>>
    \/ /\ Len(ps) % 2 = 1
       /\ \A i \in 1..Len(ps) :
             IF i % 2 = 1 THEN ps[i] \in {VarA, VarB} ELSE ps[i] = <<44>>

\* the identifiers of such a list, in source order
IdentsOf(ps) == [i \in 1..((Len(ps) + 1) \div 2) |-> ps[2 * i - 1]]

\* C23: Parse accepts fn ( ... ) { } only when the parameters are IDENT
\* tokens separated by commas, the Params being those identifiers in source
\* order; any other token in the list makes Parse return an error.
C23_ParamsAreIdentifiers ==
    op = "Parse" =>
        \A ps \in ParamLists :
            lexer.input = Source(FnText(ps))
            => IF IsIdentList(ps)
               THEN ParsedAs(FunctionLiteral(IdentsOf(ps), BlockStmt(<<>>)))
               ELSE parsed.err # NoError

(***************************************************************************)
(* LenSpec: the builtin len is called with a list of operands.             *)
(***************************************************************************)
MaxLenArgs == 2     \* arguments of a call of len

LenArgLists == UNION {[1..n -> DOMAIN Operands] : n \in 0..MaxLenArgs}

\* len(xs...)
LenOp(xs) == EvalExpr("len", CallExpr(Identifier("len"), xs), xs)

LenNext == \E is \in LenArgLists : LenOp([k \in DOMAIN is |-> Operands[is[k]]])

LenSpec == Init /\ [][LenNext]_vars

\* C24: len of a Map returns the Int of its number of entries.
C24_LenOfMapIsEntryCount ==
    (op = "len" /\ Len(args) = 1 /\ args[1].kind = "map")
    => result = [val |-> IntVal(Cardinality(DOMAIN args[1].entries)),
                 err |-> "", panic |-> ""]

(***************************************************************************)
(* ReplSpec: the loop of repl.Start.  One root environment is made; every  *)
(* iteration reads a line, parses it, evaluates the program in the root    *)
(* environment and prints the value or the error.  A Go panic unwinds out  *)
(* of the loop: the process is gone.                                       *)
(***************************************************************************)
MaxReplLines == 3   \* lines entered
MaxOperand == 2     \* the integers compared are 0..MaxOperand

\* an identifier as the evaluator holds it
GoString(bytes) ==
    CASE bytes = VarA -> "a" [] bytes = VarB -> "b" [] bytes = VarC -> "c"

\* the node the parser built, with the names of its identifiers as the
\* evaluator holds them
RECURSIVE Strings(_)
Strings(n) ==
    CASE n.node \in {"Program", "BlockStmt"} ->
            [n EXCEPT !.Stmts = [k \in DOMAIN @ |-> Strings(@[k])]]
      [] n.node = "LetStmt" ->
            [n EXCEPT !.Name = Identifier(GoString(@.Ident)), !.Value = Strings(@)]
      [] n.node = "ReturnStmt" -> [n EXCEPT !.Value = Strings(@)]
      [] n.node = "ExprStmt" -> [n EXCEPT !.Expr = Strings(@)]
      [] n.node = "Identifier" -> Identifier(GoString(n.Ident))
      [] n.node = "PrefixExpr" -> [n EXCEPT !.Right = Strings(@)]
      [] n.node \in {"InfixExpr"} ->
            [n EXCEPT !.Left = Strings(@), !.Right = Strings(@)]
      [] n.node = "IndexExpr" -> [n EXCEPT !.Left = Strings(@), !.Index = Strings(@)]
      [] n.node = "IfExpr" ->
            [n EXCEPT !.Cond = Strings(@), !.Consequence = Strings(@),
                      !.Alternative = Strings(@)]
      [] n.node = "FunctionLiteral" ->
            [n EXCEPT !.Params = [k \in DOMAIN @ |-> GoString(@[k])],
                      !.Body = Strings(@)]
      [] n.node = "CallExpr" ->
            [n EXCEPT !.Function = Strings(@),
                      !.Args = [k \in DOMAIN @ |-> Strings(@[k])]]
      [] n.node = "ArrayLiteral" ->
            [n EXCEPT !.Items = [k \in DOMAIN @ |-> Strings(@[k])]]
      [] n.node = "MapLiteral" ->
            [n EXCEPT !.Pairs = [k \in DOMAIN @ |-> <<Strings(@[k][1]), Strings(@[k][2])>>]]
      [] OTHER -> n

\* the digits of 0..9
Digit(i) == <<48 + i>>

\* the six comparison operators
Comparisons == {<<61, 61>>, <<33, 61>>, <<60>>, <<62>>, <<60, 61>>, <<62, 61>>}
CompareLines ==
    {<<Digit(x), cmp, Digit(y)>> : x \in 0..MaxOperand, y \in 0..MaxOperand,
                                   cmp \in Comparisons}

Let == <<108, 101, 116>>
\* let n = v
LetLines == {<<Let, n, <<61>>, v>> : n \in {VarA, VarB}, v \in {Digit(1), Digit(2), VarB}}
\* a, b; the failures: ) and c; let a = 2 ; c, which binds and then fails;
\* 1 / 0; the empty line
OtherLines ==
    { <<VarA>>, <<VarB>>, <<<<41>>>>, <<VarC>>,
      <<Let, VarA, <<61>>, Digit(2), <<59>>, VarC>>,
      <<Digit(1), <<47>>, Digit(0)>>, <<>> }
ReplLines == CompareLines \cup LetLines \cup OtherLines

\* one iteration of the loop: repl(rl, env) on the line read
ReplOp(text) ==
    /\ result.panic = ""
    /\ steps < MaxReplLines
    /\ LET Evaluated(e) ==
               /\ heap' = e.st.heap
               /\ log' = e.st.log
               \* val.String() is called when val != Null
               /\ result' = IF e.err = "" /\ e.panic = "" /\ e.val = Nil
                            THEN Panic(NilDeref)
                            ELSE [val |-> e.val, err |-> e.err, panic |-> e.panic]
           Done(r) ==
               /\ lexer' = r.p.l
               /\ curTok' = r.p.curTok
               /\ parsed' = [program |-> r.node, err |-> r.err]
               /\ IF Threw(r)
                  THEN /\ result' = Error(Nil, r.err.kind)
                       /\ UNCHANGED <<heap, log>>
                  ELSE Evaluated(Eval(Strings(r.node), Root,
                                      [heap |-> heap, log |-> <<>>, ord |-> 1]))
       IN  Done(Parse(NewParser(Source(text) \o <<10>>)))
    /\ op' = "repl"
    /\ steps' = steps + 1
    /\ UNCHANGED <<line, callee, args, ord, hist, got, tokens>>

ReplNext == \E text \in ReplLines : ReplOp(text)

ReplSpec == Init /\ [][ReplNext]_vars

\* the comparison a lexeme stands for
Holds(cmp, x, y) ==
    CASE cmp = <<61, 61>> -> x = y [] cmp = <<33, 61>> -> x # y
      [] cmp = <<60>> -> x < y [] cmp = <<62>> -> x > y
      [] cmp = <<60, 61>> -> x <= y [] cmp = <<62, 61>> -> x >= y

\* C25: entered as a line, x <= y and x >= y are lexed, parsed and
\* evaluated to Bool(x <= y) and Bool(x >= y), like the other four
\* comparisons.
C25_ComparisonsPassThePipeline ==
    op = "repl" =>
        \A x, y \in 0..MaxOperand : \A cmp \in Comparisons :
            lexer.input = Source(<<Digit(x), cmp, Digit(y)>>) \o <<10>>
            => result = Ok(Bool(Holds(cmp, x, y)))

\* the program has a let statement for the name
Rebinds(program, name) ==
    /\ program # NoNode
    /\ \E k \in DOMAIN program.Stmts :
          /\ program.Stmts[k].node = "LetStmt"
          /\ GoString(program.Stmts[k].Name.Ident) = name

\* the line failed to parse or to evaluate
LineFailed == parsed.err # NoError \/ result.err # "" \/ result.panic # ""

\* C26: every line is evaluated against the one root environment: a name
\* bound on an earlier line stays bound, to the same value unless the line
\* has a let for it, and a line that is the name alone yields that value; a
\* line that fails to parse or to evaluate does not end the loop.
C26_ReplKeepsRootEnv ==
    [][steps' = steps + 1
       => /\ Len(heap') >= 1
          /\ heap'[Root].outer = 0
          /\ \A n \in DOMAIN heap[Root].store :
                /\ n \in DOMAIN heap'[Root].store
                /\ ~Rebinds(parsed'.program, n)
                   => heap'[Root].store[n] = heap[Root].store[n]
          /\ \A b \in {VarA, VarB} :
                (lexer'.input = b \o <<10>> /\ GoString(b) \in DOMAIN heap[Root].store)
                => result' = Ok(heap[Root].store[GoString(b)])
          /\ LineFailed' => result'.panic = ""]_vars

\* C27: every call of NextToken that returns a token other than EOF,
\* ILLEGAL included, advances the cursor by at least one rune; so the calls
\* on a finite input reach EOF.
C27_NonEOFTokenAdvances ==
    [][(Len(tokens') = Len(tokens) + 1 /\ LastToken'.Type # "EOF")
       => lexer'.cursor > lexer.cursor]_vars

(***************************************************************************)
(* TermSpec: Parse is called on texts that stop anywhere: the prefixes of  *)
(* well-formed texts, with or without a rune that starts no token after    *)
(* them, and the texts of a few lexemes.                                   *)
(***************************************************************************)
MaxTermLexemes == 3     \* lexemes of a text of the free family

Fn == <<102, 110>>
If == <<105, 102>>
Else == <<101, 108, 115, 101>>
\* @, a rune that starts no token
At == <<64>>

\* if ( a ) { a } else { 1 };  fn ( a , a ) { a };  a ( 1 , a );
\* [ 1 , a ];  { a : 1 , 1 : a };  a [ 1 ];  let a = 1 ; a
WholeTexts ==
    { <<If, <<40>>, VarA, <<41>>, <<123>>, VarA, <<125>>, Else, <<123>>, <<49>>, <<125>> >>,
      <<Fn, <<40>>, VarA, <<44>>, VarA, <<41>>, <<123>>, VarA, <<125>> >>,
      <<VarA, <<40>>, <<49>>, <<44>>, VarA, <<41>> >>,
      <<<<91>>, <<49>>, <<44>>, VarA, <<93>> >>,
      <<<<123>>, VarA, <<58>>, <<49>>, <<44>>, <<49>>, <<58>>, VarA, <<125>> >>,
      <<VarA, <<91>>, <<49>>, <<93>> >>,
      <<Let, VarA, <<61>>, <<49>>, <<59>>, VarA>> }

\* every prefix of a whole text, and the prefix followed by @
PrefixTexts ==
    UNION {{SubSeq(t, 1, n) : n \in 0..Len(t)} \cup
           {Append(SubSeq(t, 1, n), At) : n \in 0..Len(t)} : t \in WholeTexts}

\* a @ { [ ( , fn }
TermLexemes == {VarA, At, <<123>>, <<91>>, <<40>>, <<44>>, Fn, <<125>>}
TermTexts == PrefixTexts \cup UNION {[1..n -> TermLexemes] : n \in 0..MaxTermLexemes}

TermNext ==
    \/ /\ op = "init"
       /\ \E text \in TermTexts : NewParserOp(Source(text))
    \/ ParseOp

TermSpec == Init /\ [][TermNext]_vars

\* what Parse may return: a Program, every token up to EOF being consumed
\* (the whole input, which has no NUL byte), or an error and no Program
ParseReturned(r) ==
    IF r.err = NoError
    THEN /\ r.node.node = "Program"
         /\ r.p.curTok.Type = "EOF"
         /\ r.p.l.cursor = Len(r.p.l.input)
    ELSE r.node = NoNode

\* C28: Parse returns on every text, with a Program, every token up to EOF
\* being consumed, or with an error: the call on the parser just made has
\* such a result, and the state after the call holds it.
C28_ParseTerminates ==
    /\ op = "NewParser" => ParseReturned(Parse([l |-> lexer, curTok |-> curTok]))
    /\ op = "Parse"
       => ParseReturned([p |-> [l |-> lexer, curTok |-> curTok],
                    node |-> parsed.program, err |-> parsed.err])

\* fn ( a , a ) { was parsed: the block is not closed, Parse returned the
\* error of the missing } at EOF
C28_Witness ==
    /\ op = "Parse"
    /\ lexer.input = Source(<<Fn, <<40>>, VarA, <<44>>, VarA, <<41>>, <<123>> >>)
    /\ parsed.err = ExpectedError("RBRACE", curTok)
    /\ curTok.Type = "EOF"
    /\ parsed.program = NoNode

(***************************************************************************)
(* SignalSpec: an if-expression whose branches return stands where a value *)
(* is stored: the value of a let, an element of an array literal, a key or *)
(* a value of a map literal, an argument of a call.                        *)
(***************************************************************************)
\* if (cond) { return v } else { return w }
IfReturn(cond, v, w) ==
    IfExpr(cond, BlockStmt(<<ReturnStmt(1, v)>>), BlockStmt(<<ReturnStmt(2, w)>>))

\* the values returned by the branches
Returnable == {IntegerLiteral(1), StrAB}

\* let x = e
SignalInLet(cond, e) == EvalExpr("let", LetStmt(1, "x", e), <<cond>>)
\* [e]
SignalInArray(cond, e) == EvalExpr("array", ArrayLiteral(<<e>>), <<cond>>)
\* {e: 1}
SignalInMapKey(cond, e) ==
    EvalExpr("key", MapLiteral(<< <<e, IntegerLiteral(1)>> >>), <<cond>>)
\* {1: e}
SignalInMapValue(cond, e) ==
    EvalExpr("value", MapLiteral(<< <<IntegerLiteral(1), e>> >>), <<cond>>)
\* fn(p) { p }(e)
SignalInArg(cond, e) ==
    EvalExpr("arg",
             CallExpr(FunctionLiteral(<<"p">>,
                          BlockStmt(<<ExprStmt(1, Identifier("p"))>>)), <<e>>),
             <<cond>>)

SignalNext ==
    \E i \in DOMAIN Operands : \E v, w \in Returnable :
        \/ SignalInLet(Operands[i], IfReturn(Operands[i], v, w))
        \/ SignalInArray(Operands[i], IfReturn(Operands[i], v, w))
        \/ SignalInMapKey(Operands[i], IfReturn(Operands[i], v, w))
        \/ SignalInMapValue(Operands[i], IfReturn(Operands[i], v, w))
        \/ SignalInArg(Operands[i], IfReturn(Operands[i], v, w))

SignalSpec == Init /\ [][SignalNext]_vars

IsSignal(v) == v.kind = "returnValue"

\* C29: no binding of an environment, no element of an Array, no key or
\* value of a Map entry and so no argument bound to a parameter holds a
\* ReturnSignal: a return inside a branch of an if-expression leaves the
\* enclosing program instead.
C29_NoReturnSignalIsStored ==
    /\ \A f \in DOMAIN heap : \A n \in DOMAIN heap[f].store :
          ~IsSignal(heap[f].store[n])
    /\ result.val.kind = "array"
       => \A k \in DOMAIN result.val.items : ~IsSignal(result.val.items[k])
    /\ result.val.kind = "map"
       => \A h \in DOMAIN result.val.entries :
             /\ ~IsSignal(result.val.entries[h].Key)
             /\ ~IsSignal(result.val.entries[h].Val)

(***************************************************************************)
(* BlockSpec: Eval of programs and if-expressions whose blocks may be      *)
(* empty, and of calls of functions with such bodies.                      *)
(***************************************************************************)
\* { }, { 1 }, { 2 }, { "ab" }, { true }, { let y = 1 }, { return 1 }
Blocks ==
    { BlockStmt(<<>>), BlockStmt(<<ExprStmt(1, IntegerLiteral(1))>>),
      BlockStmt(<<ExprStmt(1, IntegerLiteral(2))>>),
      BlockStmt(<<ExprStmt(1, StrAB)>>), BlockStmt(<<ExprStmt(1, Boolean(TRUE))>>),
      BlockStmt(<<LetStmt(1, "y", IntegerLiteral(1))>>),
      BlockStmt(<<ReturnStmt(1, IntegerLiteral(1))>>) }

\* if (cond) cons else alt, alt being a block or missing
EvalIfOp(cond, cons, alt) == EvalExpr("if", IfExpr(cond, cons, alt), <<cond>>)
\* a program of the statements of a block
EvalProgramOp(block) == EvalExpr("program", Program(block.Stmts), <<>>)
\* fn() body ()
EvalCallOp(body) ==
    EvalExpr("call", CallExpr(FunctionLiteral(<<>>, body), <<>>), <<>>)

BlockNext ==
    \/ \E i \in DOMAIN Operands : \E cons \in Blocks : \E alt \in Blocks \cup {NoBlock} :
            EvalIfOp(Operands[i], cons, alt)
    \/ \E block \in Blocks : EvalProgramOp(block)
    \/ \E body \in Blocks : EvalCallOp(body)

BlockSpec == Init /\ [][BlockNext]_vars

\* C30: when Eval returns a nil error the Value it returns is not nil: Null
\* stands for no value, also for an empty Program, for an if-expression
\* whose taken block is empty and for a call of a function whose body is
\* empty.
C30_ValueIsNeverNil ==
    (op \in {"if", "program", "call"} /\ result.err = "" /\ result.panic = "")
    => result.val # Nil

====
